---- MODULE Spec2Model ----
(***************************************************************************)
(* Call signalling of the intercom tablets: the useAgoraCall hook          *)
(* (hooks/useAgoraCall) run by every tablet, the peer-message transport    *)
(* between the tablets, and the PhoneCallUI buttons that invoke the hook's *)
(* intents.                                                                *)
(*                                                                         *)
(* Every handler of the hook runs to completion on the single event loop;  *)
(* an async handler is split at its one await (client.sendMessageToPeer):  *)
(* the part before the await is one action, the continuation another.      *)
(* The CallSignal field `timestamp` is written but never read by any       *)
(* handler and is left out of the signal records.  The fields `att` of a   *)
(* signal and the variables att, idAtt and applied are history (ghost)     *)
(* values: they name the call attempt a signal belongs to and the signal a *)
(* tablet applied last, and are never read by a handler.                   *)
(***************************************************************************)
EXTENDS Integers, Sequences, FiniteSets, TLC

\* ---------------------------------------------------------------- bounds
\* identities (site names) of the tablets on the transport
Parties == {"A", "B", "C"}

\* number of call ids generateCallId may allocate in one behaviour
MaxIds == 3

\* number of signals in flight from one tablet to another
MaxQueue == 1

\* identities of the tablets whose heartbeats the command dashboard hears
Users == {"site1", "site2"}

\* the time, in seconds, up to which the dashboard is observed
MaxTime == 42

\* the time, in seconds, up to which the video call is observed
MaxClock == 7500

\* number of times the effect of tablet A starts initializeRtm
MaxRuns == 2

\* the time, in seconds, up to which the heartbeats of tablet A are observed
MaxBeat == 25

\* ------------------------------------------------------------- constants
Channel == "dragnet-channel"

CallStates == {"IDLE", "CALLING", "RINGING", "CONNECTED", "ENDED"}

SignalTypes == {"INCOMING_CALL", "CALL_ACCEPTED", "CALL_DECLINED", "CALL_ENDED"}

\* the transport's connection states; the handler only tells CONNECTED from
\* the rest, for which DISCONNECTED stands
ConnectionStates == {"CONNECTED", "DISCONNECTED"}

\* useRef<string | null>(null): the null call id
NoId == 0

\* useState<string>(""): no dialed target
NoTarget == ""

\* useState<CallSignal | null>(null): the null currentCall
NoCall ==
  [type |-> "NONE", from |-> "", to |-> "", channel |-> "", callId |-> NoId,
   att |-> NoId]

\* useState<string | null>(null): the null error and the messages set
NoError == "null"

ErrDeclined == "Call was declined"

ErrNotConnected == "RTM not connected"

ErrSendFailed == "Failed to send call signal"

\* the messages of the errors JSON.parse and a property read of null throw
ErrSyntax == "Unexpected token"

ErrTypeError == "Cannot read properties of null"

Errors ==
  {NoError, ErrDeclined, ErrNotConnected, ErrSendFailed, ErrSyntax,
   ErrTypeError, "Failed to generate RTM token",
   "Failed to connect to messaging service", "Failed to join channel"}

\* position of a tablet's suspended intent handler (none: no handler is
\* awaiting a send; x: the send of intent x was handed to the transport;
\* x_rej: the send of intent x will reject)
Intents == {"initiate", "accept", "decline", "end"}

Rejected(op) == op \o "_rej"

Pendings == {"none"} \cup Intents \cup {Rejected(op) : op \in Intents}

\* OFFLINE_THRESHOLD = 30000 ms and the period of the cleanup timer, 5000 ms,
\* in seconds (every event of the dashboard happens at a whole second)
OFFLINE_THRESHOLD == 30

CleanupInterval == 5

\* expirationTimeInSeconds of the tokens VideoCall asks for, the window in
\* which isTokenExpired holds, and the period of the check (60000 ms), in
\* seconds
TokenLifetime == 3600

RenewalWindow == 300

CheckInterval == 60

\* the times, in seconds, generateAgoraToken may take to answer
Latencies == {20, 80}

\* currentToken before a token was stored (null)
NoToken == 0

\* the largest value the random session uid takes
MaxUid == 1

\* the uid parameter of generateToken when the caller passes none
Undefined == -1

\* the channels the settings of a tablet may name
Channels == {Channel, "site-channel"}

\* channelRef.current before a channel was joined (null)
NoChannel == ""

\* the period of the heartbeat interval, 10000 ms, in seconds
HeartbeatInterval == 10

\* no heartbeat sent yet
NoHeartbeat == [at |-> 0, text |-> "", channel |-> NoChannel]

\* the messages handleError shows when generateRtmToken, both logins or
\* rtmChannel.join fail
ErrRtmToken == "Failed to generate RTM token"

ErrLogin == "Failed to connect to messaging service"

ErrChannelJoin == "Failed to join channel"

\* the errors VideoCall shows
ErrToken == "Failed to generate authentication token"

ErrJoin == "Failed to generate token"

VARIABLES
  callState,            \* [Parties -> CallStates]
  currentCall,          \* [Parties -> signal or NoCall]
  error,                \* [Parties -> Errors]
  currentTargetUserId,  \* [Parties -> Parties or NoTarget]
  showVideoCall,        \* [Parties -> BOOLEAN]
  isConnected,          \* [Parties -> BOOLEAN]
  currentCallIdRef,     \* [Parties -> 0..MaxIds], NoId is null
  ringing,              \* [Parties -> BOOLEAN], the ringtone is playing
  pending,              \* [Parties -> Pendings]
  net,                  \* [Parties -> [Parties -> Seq(signal)]], in flight
  nextId,               \* the next call id generateCallId returns
  att,                  \* ghost: the call attempt a tablet is in, or NoId
  idAtt,                \* ghost: the attempt whose signals first carried an id
  applied,              \* ghost: the signals a tablet applied in its last steps
  onlineUsers,          \* CommandPage: Seq of [userId, lastSeen, isOnline]
  commandConnected,     \* CommandPage: its isConnected
  commandError,         \* CommandPage: its error
  now,                  \* Date.now() of the dashboard, in seconds
  nextCleanup,          \* the time the cleanup timer fires next
  isJoined,             \* VideoCall: its isJoined
  joining,              \* VideoCall: joinChannel is running
  tokenExpiresAt,       \* VideoCall: epoch seconds, 0 is null
  currentToken,         \* VideoCall: the token stored, named by its issue time
  currentUid,           \* VideoCall: the uid of the session, 0 before a join
  videoError,           \* VideoCall: its error
  issuing,              \* the calls of generateAgoraToken in flight
  checkAt,              \* the time the token check fires next, 0: no timer
  clock,                \* Math.floor(Date.now() / 1000) of the video call
  mounted,              \* tablet A: its useAgoraCall is mounted
  rtmRun,               \* tablet A: the await at which initializeRtm stands
  hookChannel,          \* tablet A: its channel (state)
  clientListeners,      \* tablet A: registrations of its handlers on the client
  channelSubs,          \* tablet A: [Channels -> live ChannelMessage listeners]
  channelRef,           \* tablet A: channelRef.current, or NoChannel
  loggedIn,             \* tablet A: the client is logged in
  attempts,             \* ghost: the logins the running initializeRtm tried
  joinTried,            \* ghost: the running initializeRtm called handleJoinChannel
  runs,                 \* ghost: the number of initializeRtm runs started
  hbAt,                 \* tablet A: the time its heartbeat interval fires, 0: none
  lastHeartbeat         \* ghost: the last heartbeat tablet A sent, and when

\* the tablets
tabletVars ==
  <<callState, currentCall, error, currentTargetUserId, showVideoCall,
    isConnected, currentCallIdRef, ringing, pending, net, nextId, att, idAtt,
    applied>>

\* CommandPage
commandVars ==
  <<onlineUsers, commandConnected, commandError, now, nextCleanup>>

\* VideoCall
videoVars ==
  <<isJoined, joining, tokenExpiresAt, currentToken, currentUid, videoError,
    issuing,
    checkAt, clock>>

\* tablet A's connection to the messaging service
lifeVars ==
  <<mounted, rtmRun, hookChannel, clientListeners, channelSubs, channelRef,
    loggedIn, attempts, joinTried, runs, hbAt, lastHeartbeat>>

vars == <<tabletVars, commandVars, videoVars, lifeVars>>

callVars ==
  <<callState, currentCall, error, currentTargetUserId, showVideoCall,
    currentCallIdRef, ringing, att>>

Ids == 1..MaxIds

Signals ==
  [type : SignalTypes, from : Parties, to : Parties, channel : {Channel},
   callId : Ids, att : 0..MaxIds]

\* ghost: sig is the type of the signal the tablet's last step applied, was
\* the callState it was applied in and prev the sig of the step before;
\* NONE when that step was not the handling of a signal
NoApplied == [sig |-> "NONE", was |-> "IDLE", prev |-> "NONE"]

Applieds ==
  [sig : SignalTypes \cup {"NONE"}, was : CallStates,
   prev : SignalTypes \cup {"NONE"}]

\* ghost: tablet p took a step that is not the handling of a signal
noSignal(p) == applied' = [applied EXCEPT ![p] = NoApplied]

\* the tablets after the hook is constructed
InitCall ==
  /\ callState = [p \in Parties |-> "IDLE"]
  /\ currentCall = [p \in Parties |-> NoCall]
  /\ error = [p \in Parties |-> NoError]
  /\ currentTargetUserId = [p \in Parties |-> NoTarget]
  /\ showVideoCall = [p \in Parties |-> FALSE]
  /\ isConnected = [p \in Parties |-> FALSE]
  /\ currentCallIdRef = [p \in Parties |-> NoId]
  /\ ringing = [p \in Parties |-> FALSE]
  /\ pending = [p \in Parties |-> "none"]
  /\ net = [s \in Parties |-> [r \in Parties |-> <<>>]]
  /\ nextId = 1
  /\ att = [p \in Parties |-> NoId]
  /\ idAtt = [i \in Ids |-> NoId]
  /\ applied = [p \in Parties |-> NoApplied]

\* CommandPage at time 0, mounted less than one period of the cleanup timer
\* before: nobody seen yet, the timer running
InitCommand ==
  /\ onlineUsers = <<>>
  /\ commandConnected = FALSE
  /\ commandError = NoError
  /\ now = 0
  /\ nextCleanup \in 1..CleanupInterval

\* VideoCall after it is mounted at time 0
InitVideo ==
  /\ isJoined = FALSE
  /\ joining = FALSE
  /\ tokenExpiresAt = 0
  /\ currentToken = NoToken
  /\ currentUid = 0
  /\ videoError = NoError
  /\ issuing = {}
  /\ checkAt = 0
  /\ clock = 0

\* tablet A's hook right after the effect that runs initializeRtm has run
\* for the first time: the settings are loaded (userId is set), the client
\* is created, generateRtmTokenForUser was called and is awaited
InitLife ==
  /\ mounted = TRUE
  /\ rtmRun = "token"
  /\ hookChannel = Channel
  /\ clientListeners = 0
  /\ channelSubs = [c \in Channels |-> 0]
  /\ channelRef = NoChannel
  /\ loggedIn = FALSE
  /\ attempts = <<>>
  /\ joinTried = FALSE
  /\ runs = 1
  /\ hbAt = 0
  /\ lastHeartbeat = NoHeartbeat

\* the tablets, with a dashboard and a video call that were mounted just now
Init ==
  /\ InitCall /\ InitCommand /\ nextCleanup = CleanupInterval /\ InitVideo
  /\ InitLife

\* ------------------------------------------------------ utility functions
\* resetCallState without the clearing of currentCallIdRef
resetCallState_KeepsCallId(p) ==
  /\ UNCHANGED currentCallIdRef
  /\ currentCall' = [currentCall EXCEPT ![p] = NoCall]
  /\ callState' = [callState EXCEPT ![p] = "IDLE"]
  /\ showVideoCall' = [showVideoCall EXCEPT ![p] = FALSE]
  /\ currentTargetUserId' = [currentTargetUserId EXCEPT ![p] = NoTarget]
  /\ error' = [error EXCEPT ![p] = NoError]
  /\ ringing' = [ringing EXCEPT ![p] = FALSE]
  /\ att' = [att EXCEPT ![p] = NoId]

\* resetCallState: clears the ref, currentCall, the state, the video view,
\* the dialed target and the error, and stops the ringtone
resetCallState(p) ==
  /\ currentCallIdRef' = [currentCallIdRef EXCEPT ![p] = NoId]
  /\ currentCall' = [currentCall EXCEPT ![p] = NoCall]
  /\ callState' = [callState EXCEPT ![p] = "IDLE"]
  /\ showVideoCall' = [showVideoCall EXCEPT ![p] = FALSE]
  /\ currentTargetUserId' = [currentTargetUserId EXCEPT ![p] = NoTarget]
  /\ error' = [error EXCEPT ![p] = NoError]
  /\ ringing' = [ringing EXCEPT ![p] = FALSE]
  /\ att' = [att EXCEPT ![p] = NoId]

\* generateCallId: call_<Date.now()>_<random suffix>, a value no earlier call
\* of generateCallId returned; the caller stores it in currentCallIdRef
generateCallId == nextId

\* the CallSignal sendCallSignal builds
makeSignal(p, to, channel, type, callId, attempt) ==
  [type |-> type, from |-> p, to |-> to, channel |-> channel,
   callId |-> callId, att |-> attempt]

\* client.sendMessageToPeer(message, to): the message is in flight to `to`
sendMessageToPeer(signal) ==
  /\ Len(net[signal.from][signal.to]) < MaxQueue
  /\ net' = [net EXCEPT ![signal.from][signal.to] = Append(@, signal)]
  /\ idAtt' = IF signal.att # NoId /\ idAtt[signal.callId] = NoId
                THEN [idAtt EXCEPT ![signal.callId] = signal.att]
                ELSE idAtt

\* handleCallSignal: the switch on signal.type
handleCallSignal(p, signal) ==
  CASE signal.type = "INCOMING_CALL" ->
         /\ currentCall' = [currentCall EXCEPT ![p] = signal]
         /\ callState' = [callState EXCEPT ![p] = "RINGING"]
         /\ ringing' = [ringing EXCEPT ![p] = TRUE]
         /\ att' = [att EXCEPT ![p] = signal.att]
         /\ UNCHANGED <<error, currentTargetUserId, showVideoCall,
                        currentCallIdRef>>
    [] signal.type = "CALL_ACCEPTED" ->
         /\ currentCall' = [currentCall EXCEPT ![p] = signal]
         /\ callState' = [callState EXCEPT ![p] = "CONNECTED"]
         /\ showVideoCall' = [showVideoCall EXCEPT ![p] = TRUE]
         /\ ringing' = [ringing EXCEPT ![p] = FALSE]
         /\ UNCHANGED <<error, currentTargetUserId, currentCallIdRef, att>>
    [] signal.type = "CALL_DECLINED" ->
         /\ currentCall' = [currentCall EXCEPT ![p] = NoCall]
         /\ callState' = [callState EXCEPT ![p] = "IDLE"]
         /\ error' = [error EXCEPT ![p] = ErrDeclined]
         /\ ringing' = [ringing EXCEPT ![p] = FALSE]
         /\ att' = [att EXCEPT ![p] = NoId]
         /\ UNCHANGED <<currentTargetUserId, showVideoCall, currentCallIdRef>>
    [] signal.type = "CALL_ENDED" ->
         resetCallState(p)

\* -------------------------------------------------------- transport events
\* handleConnectionStateChange(newState)
handleConnectionStateChange(p, newState) ==
  /\ isConnected' = [isConnected EXCEPT ![p] = (newState = "CONNECTED")]
  /\ UNCHANGED <<callVars, pending, net, nextId, idAtt, applied>>

\* initializeRtm: client.login succeeded, setIsConnected(true)
initializeRtm(p) ==
  /\ ~isConnected[p]
  /\ isConnected' = [isConnected EXCEPT ![p] = TRUE]
  /\ UNCHANGED <<callVars, pending, net, nextId, idAtt, applied>>

\* handleMessageFromPeer: the transport delivers the oldest signal in flight
\* from s to r, which is logged in and connected; JSON.parse succeeds on a
\* CallSignal and handleCallSignal runs
handleMessageFromPeer(s, r) ==
  /\ isConnected[r]
  /\ net[s][r] # <<>>
  /\ handleCallSignal(r, Head(net[s][r]))
  /\ net' = [net EXCEPT ![s][r] = Tail(@)]
  /\ applied' = [applied EXCEPT ![r] =
                   [sig |-> Head(net[s][r]).type, was |-> callState[r],
                    prev |-> applied[r].sig]]
  /\ UNCHANGED <<isConnected, pending, nextId, idAtt>>

\* message texts that are not the JSON of a CallSignal: no JSON at all, the
\* JSON null, a heartbeat, and an object of an unknown type
OtherTexts == {"oops", "null", "{type:heartbeat}", "{type:PING}"}

\* JSON.parse(text) of such a text: it throws a SyntaxError, or returns null
\* or an object with the given type
JSONparse(text) ==
  CASE text = "oops" -> [throws |-> TRUE, isNull |-> FALSE, type |-> ""]
    [] text = "null" -> [throws |-> FALSE, isNull |-> TRUE, type |-> ""]
    [] text = "{type:heartbeat}" ->
         [throws |-> FALSE, isNull |-> FALSE, type |-> "heartbeat"]
    [] text = "{type:PING}" ->
         [throws |-> FALSE, isNull |-> FALSE, type |-> "PING"]

\* a parse that reports every object whose type is no signal type
errorAfterParse_RejectsUnknown(data, before) ==
  IF data.throws THEN ErrSyntax
  ELSE IF data.isNull \/ data.type \notin SignalTypes THEN ErrTypeError
  ELSE before

\* what the try/catch around JSON.parse and handleCallSignal leaves in error:
\* the catch runs handleError, which shows the message of the thrown error;
\* an object whose type matches no case of the switch changes nothing
errorAfterParse(data, before) ==
  IF data.throws THEN ErrSyntax
  ELSE IF data.isNull THEN ErrTypeError
  ELSE before

\* handleMessageFromPeer on a peer message whose text is no CallSignal
handleOtherMessageFromPeer(r, text) ==
  /\ isConnected[r]
  /\ error' = [error EXCEPT ![r] = errorAfterParse(JSONparse(text), error[r])]
  /\ noSignal(r)
  /\ UNCHANGED <<callState, currentCall, currentTargetUserId, showVideoCall,
                 isConnected, currentCallIdRef, ringing, pending, net, nextId,
                 att, idAtt>>

\* handleChannelMessage on a channel message whose text is no CallSignal: a
\* heartbeat returns early, the rest is treated as on the peer path
handleChannelMessage(r, text) ==
  /\ isConnected[r]
  /\ error' = [error EXCEPT ![r] =
                 IF ~JSONparse(text).throws /\ ~JSONparse(text).isNull
                    /\ JSONparse(text).type = "heartbeat"
                   THEN error[r]
                   ELSE errorAfterParse(JSONparse(text), error[r])]
  /\ noSignal(r)
  /\ UNCHANGED <<callState, currentCall, currentTargetUserId, showVideoCall,
                 isConnected, currentCallIdRef, ringing, pending, net, nextId,
                 att, idAtt>>

\* ---------------------------------------------------------- local intents
\* sendCallSignal without the check of isConnected
sendCallSignal_NoConnectionCheck(p, ref, next, attempt, to, channel, type, op, ok) ==
  LET callId == IF ref # NoId THEN ref ELSE next IN
  /\ callId \in Ids
  /\ currentCallIdRef' = [currentCallIdRef EXCEPT ![p] = callId]
  /\ nextId' = IF ref # NoId THEN next ELSE next + 1
  /\ IF ok
       THEN /\ sendMessageToPeer(
                 makeSignal(p, to, channel, type, callId, attempt))
            /\ pending' = [pending EXCEPT ![p] = op]
       ELSE /\ pending' = [pending EXCEPT ![p] = Rejected(op)]
            /\ UNCHANGED <<net, idAtt>>

\* sendCallSignal, entered with currentCallIdRef.current = ref and the id
\* generator at next.  Not connected: it throws before anything else (the
\* caller's catch sets the error).  Connected: it takes the callId from the
\* ref or generates one, builds the signal and hands it to the transport,
\* which accepts it (ok) or will reject it; the caller then waits (op).
sendCallSignal(p, ref, next, attempt, to, channel, type, op, ok) ==
  LET callId == IF ref # NoId THEN ref ELSE next IN
  IF ~isConnected[p]
    THEN /\ currentCallIdRef' = [currentCallIdRef EXCEPT ![p] = ref]
         /\ nextId' = next
         /\ UNCHANGED <<pending, net, idAtt>>
    ELSE /\ callId \in Ids
         /\ currentCallIdRef' = [currentCallIdRef EXCEPT ![p] = callId]
         /\ nextId' = IF ref # NoId THEN next ELSE next + 1
         /\ IF ok
              THEN /\ sendMessageToPeer(
                        makeSignal(p, to, channel, type, callId, attempt))
                   /\ pending' = [pending EXCEPT ![p] = op]
              ELSE /\ pending' = [pending EXCEPT ![p] = Rejected(op)]
                   /\ UNCHANGED <<net, idAtt>>

\* the error a handler shows once sendCallSignal was entered: the thrown
\* "RTM not connected" (handleError keeps error.message), else as before
errorAfterSend(p, before) ==
  IF ~isConnected[p] THEN ErrNotConnected ELSE before

\* handleInitiateCall up to its await: setError(null), store the target,
\* generateCallId(), sendCallSignal(target, channel, INCOMING_CALL)
handleInitiateCall(p, targetUserId, ok) ==
  /\ pending[p] = "none"
  /\ targetUserId # NoTarget
  /\ generateCallId \in Ids
  /\ currentTargetUserId' = [currentTargetUserId EXCEPT ![p] = targetUserId]
  /\ att' = [att EXCEPT ![p] = generateCallId]
  /\ error' = [error EXCEPT ![p] = errorAfterSend(p, NoError)]
  /\ sendCallSignal(p, generateCallId, nextId + 1, generateCallId,
                    targetUserId, Channel, "INCOMING_CALL", "initiate", ok)
  /\ noSignal(p)
  /\ UNCHANGED <<callState, currentCall, showVideoCall, isConnected, ringing>>

\* handleAcceptCall that leaves the error on screen as it is
handleAcceptCall_KeepsError(p, ok) ==
  /\ pending[p] = "none"
  /\ IF currentCall[p] = NoCall
       THEN UNCHANGED vars
       ELSE /\ error' = [error EXCEPT ![p] = errorAfterSend(p, error[p])]
            /\ ringing' = [ringing EXCEPT ![p] = FALSE]
            /\ sendCallSignal(p, currentCallIdRef[p], nextId, att[p],
                              currentCall[p].from, currentCall[p].channel,
                              "CALL_ACCEPTED", "accept", ok)
            /\ noSignal(p)
            /\ UNCHANGED <<callState, currentCall, currentTargetUserId,
                           showVideoCall, isConnected, att>>

\* handleAcceptCall up to its await: setError(null), stopRingtone(),
\* sendCallSignal(currentCall.from, currentCall.channel, CALL_ACCEPTED)
handleAcceptCall(p, ok) ==
  /\ pending[p] = "none"
  /\ IF currentCall[p] = NoCall
       THEN UNCHANGED vars
       ELSE /\ error' = [error EXCEPT ![p] = errorAfterSend(p, NoError)]
            /\ ringing' = [ringing EXCEPT ![p] = FALSE]
            /\ sendCallSignal(p, currentCallIdRef[p], nextId, att[p],
                              currentCall[p].from, currentCall[p].channel,
                              "CALL_ACCEPTED", "accept", ok)
            /\ noSignal(p)
            /\ UNCHANGED <<callState, currentCall, currentTargetUserId,
                           showVideoCall, isConnected, att>>

\* handleDeclineCall that clears the call before its send is awaited
handleDeclineCall_ClearsBeforeSend(p, ok) ==
  /\ pending[p] = "none"
  /\ IF currentCall[p] = NoCall
       THEN UNCHANGED vars
       ELSE /\ error' = [error EXCEPT ![p] = errorAfterSend(p, NoError)]
            /\ ringing' = [ringing EXCEPT ![p] = FALSE]
            /\ sendCallSignal(p, currentCallIdRef[p], nextId, att[p],
                              currentCall[p].from, currentCall[p].channel,
                              "CALL_DECLINED", "decline", ok)
            /\ noSignal(p)
            /\ currentCall' = [currentCall EXCEPT ![p] = NoCall]
            /\ callState' = [callState EXCEPT ![p] = "IDLE"]
            /\ UNCHANGED <<currentTargetUserId, showVideoCall, isConnected,
                           att>>

\* handleDeclineCall up to its await: setError(null), stopRingtone(),
\* sendCallSignal(currentCall.from, currentCall.channel, CALL_DECLINED)
handleDeclineCall(p, ok) ==
  /\ pending[p] = "none"
  /\ IF currentCall[p] = NoCall
       THEN UNCHANGED vars
       ELSE /\ error' = [error EXCEPT ![p] = errorAfterSend(p, NoError)]
            /\ ringing' = [ringing EXCEPT ![p] = FALSE]
            /\ sendCallSignal(p, currentCallIdRef[p], nextId, att[p],
                              currentCall[p].from, currentCall[p].channel,
                              "CALL_DECLINED", "decline", ok)
            /\ noSignal(p)
            /\ UNCHANGED <<callState, currentCall, currentTargetUserId,
                           showVideoCall, isConnected, att>>

\* the peer handleEndActiveCall notifies: currentCall?.from ?? target
endTarget(p) ==
  IF currentCall[p] # NoCall THEN currentCall[p].from
  ELSE currentTargetUserId[p]

\* handleEndActiveCall up to its await; with no peer to notify it does not
\* await and resets at once
handleEndActiveCall(p, ok) ==
  /\ pending[p] = "none"
  /\ IF callState[p] = "IDLE"
       THEN UNCHANGED vars
       ELSE IF endTarget(p) = NoTarget
         THEN /\ resetCallState(p)
              /\ noSignal(p)
              /\ UNCHANGED <<isConnected, pending, net, nextId, idAtt>>
         ELSE /\ ringing' = [ringing EXCEPT ![p] = FALSE]
              /\ error' = [error EXCEPT ![p] = errorAfterSend(p, error[p])]
              /\ sendCallSignal(p, currentCallIdRef[p], nextId, att[p],
                                endTarget(p), Channel, "CALL_ENDED", "end",
                                ok)
              /\ noSignal(p)
              /\ UNCHANGED <<callState, currentCall, currentTargetUserId,
                             showVideoCall, isConnected, att>>

\* ----------------------------------------- continuations after the await
\* handleInitiateCall resumed: setCallState("CALLING")
resumeInitiateCall(p) ==
  /\ pending[p] = "initiate"
  /\ callState' = [callState EXCEPT ![p] = "CALLING"]
  /\ pending' = [pending EXCEPT ![p] = "none"]
  /\ noSignal(p)
  /\ UNCHANGED <<currentCall, error, currentTargetUserId, showVideoCall,
                 isConnected, currentCallIdRef, ringing, net, nextId, att,
                 idAtt>>

\* handleAcceptCall resumed: setCallState("CONNECTED"), setShowVideoCall(true)
resumeAcceptCall(p) ==
  /\ pending[p] = "accept"
  /\ callState' = [callState EXCEPT ![p] = "CONNECTED"]
  /\ showVideoCall' = [showVideoCall EXCEPT ![p] = TRUE]
  /\ pending' = [pending EXCEPT ![p] = "none"]
  /\ noSignal(p)
  /\ UNCHANGED <<currentCall, error, currentTargetUserId, isConnected,
                 currentCallIdRef, ringing, net, nextId, att, idAtt>>

\* handleDeclineCall resumed without setCurrentCall(null)
resumeDeclineCall_KeepsCall(p) ==
  /\ pending[p] = "decline"
  /\ callState' = [callState EXCEPT ![p] = "IDLE"]
  /\ att' = [att EXCEPT ![p] = NoId]
  /\ pending' = [pending EXCEPT ![p] = "none"]
  /\ noSignal(p)
  /\ UNCHANGED <<currentCall, error, currentTargetUserId, showVideoCall,
                 isConnected, currentCallIdRef, ringing, net, nextId, idAtt>>

\* handleDeclineCall resumed: setCurrentCall(null), setCallState("IDLE")
resumeDeclineCall(p) ==
  /\ pending[p] = "decline"
  /\ currentCall' = [currentCall EXCEPT ![p] = NoCall]
  /\ callState' = [callState EXCEPT ![p] = "IDLE"]
  /\ att' = [att EXCEPT ![p] = NoId]
  /\ pending' = [pending EXCEPT ![p] = "none"]
  /\ noSignal(p)
  /\ UNCHANGED <<error, currentTargetUserId, showVideoCall, isConnected,
                 currentCallIdRef, ringing, net, nextId, idAtt>>

\* handleEndActiveCall resumed into the label ENDED instead of IDLE
resumeEndActiveCall_RestsInEnded(p) ==
  /\ pending[p] = "end"
  /\ currentCallIdRef' = [currentCallIdRef EXCEPT ![p] = NoId]
  /\ currentCall' = [currentCall EXCEPT ![p] = NoCall]
  /\ callState' = [callState EXCEPT ![p] = "ENDED"]
  /\ showVideoCall' = [showVideoCall EXCEPT ![p] = FALSE]
  /\ currentTargetUserId' = [currentTargetUserId EXCEPT ![p] = NoTarget]
  /\ error' = [error EXCEPT ![p] = NoError]
  /\ ringing' = [ringing EXCEPT ![p] = FALSE]
  /\ att' = [att EXCEPT ![p] = NoId]
  /\ pending' = [pending EXCEPT ![p] = "none"]
  /\ noSignal(p)
  /\ UNCHANGED <<isConnected, net, nextId, idAtt>>

\* handleEndActiveCall resumed: resetCallState()
resumeEndActiveCall(p) ==
  /\ pending[p] = "end"
  /\ resetCallState(p)
  /\ pending' = [pending EXCEPT ![p] = "none"]
  /\ noSignal(p)
  /\ UNCHANGED <<isConnected, net, nextId, idAtt>>

\* the awaited send rejected: sendCallSignal's catch and the handler's catch
\* both run handleError, which keeps the message of the thrown error
sendRejected(p) ==
  /\ pending[p] \in {Rejected(op) : op \in Intents}
  /\ error' = [error EXCEPT ![p] = ErrSendFailed]
  /\ pending' = [pending EXCEPT ![p] = "none"]
  /\ noSignal(p)
  /\ UNCHANGED <<callState, currentCall, currentTargetUserId, showVideoCall,
                 isConnected, currentCallIdRef, ringing, net, nextId, att,
                 idAtt>>

\* ------------------------------------------------- PhoneCallUI (the user)
\* the video view replaces every other control while showVideoCall
showsVideoCall(p) == showVideoCall[p]

\* Accept / Decline buttons: callState === "RINGING" && currentCall
showsIncomingCall(p) ==
  ~showVideoCall[p] /\ callState[p] = "RINGING" /\ currentCall[p] # NoCall

\* Cancel button: callState === "CALLING"
showsOutgoingCall(p) == ~showVideoCall[p] /\ callState[p] = "CALLING"

\* call buttons: callState === "IDLE", disabled = !channel || !isConnected
showsCallControls(p) ==
  ~showVideoCall[p] /\ callState[p] = "IDLE" /\ isConnected[p]

\* the targets configured in the site settings of each tablet: A and B dial
\* each other, C dials A
targetUserIds(p) == IF p = "A" THEN {"B"} ELSE {"A"}

\* The user of tablet p presses a button the UI shows; oks are the outcomes
\* the transport can give the send (TRUE: accepted, FALSE: rejected).  The
\* UI names the end intent handleEndCall; the hook returns it as
\* handleEndActiveCall.
InitiateCall(p, oks) ==
  /\ showsCallControls(p)
  /\ \E t \in targetUserIds(p), ok \in oks : handleInitiateCall(p, t, ok)

AcceptCall(p, oks) ==
  /\ showsIncomingCall(p)
  /\ \E ok \in oks : handleAcceptCall(p, ok)

DeclineCall(p, oks) ==
  /\ showsIncomingCall(p)
  /\ \E ok \in oks : handleDeclineCall(p, ok)

EndCall(p, oks) ==
  /\ showsOutgoingCall(p) \/ showsVideoCall(p)
  /\ \E ok \in oks : handleEndActiveCall(p, ok)

ConnectionStateChanged(p) ==
  \E newState \in ConnectionStates : handleConnectionStateChange(p, newState)

MessageFromPeer(r) ==
  \E s \in Parties \ {r} : handleMessageFromPeer(s, r)

\* the steps of tablet p on a transport that accepts every send
TabletStep(p) ==
  \/ initializeRtm(p)
  \/ MessageFromPeer(p)
  \/ InitiateCall(p, {TRUE})
  \/ AcceptCall(p, {TRUE})
  \/ DeclineCall(p, {TRUE})
  \/ EndCall(p, {TRUE})
  \/ resumeInitiateCall(p)
  \/ resumeAcceptCall(p)
  \/ resumeDeclineCall(p)
  \/ resumeEndActiveCall(p)

\* the steps of tablet p on a transport that may reject a send and whose
\* connection may drop and come back at any time
UnreliableStep(p) ==
  \/ initializeRtm(p)
  \/ ConnectionStateChanged(p)
  \/ MessageFromPeer(p)
  \/ InitiateCall(p, BOOLEAN)
  \/ AcceptCall(p, BOOLEAN)
  \/ DeclineCall(p, BOOLEAN)
  \/ EndCall(p, BOOLEAN)
  \/ resumeInitiateCall(p)
  \/ resumeAcceptCall(p)
  \/ resumeDeclineCall(p)
  \/ resumeEndActiveCall(p)
  \/ sendRejected(p)

\* Two tablets A and B (C is switched off) on a transport that accepts
\* every send and stays connected once logged in.
Next ==
  /\ \E p \in {"A", "B"} : TabletStep(p)
  /\ UNCHANGED <<commandVars, videoVars, lifeVars>>

Spec == Init /\ [][Next]_vars

\* The two tablets on the unreliable transport.
NextU ==
  /\ \E p \in {"A", "B"} : UnreliableStep(p)
  /\ UNCHANGED <<commandVars, videoVars, lifeVars>>

SpecU == Init /\ [][NextU]_vars

\* Three tablets, A and B as before and C dialing A, on the transport of
\* Spec.
Next3 ==
  /\ \E p \in Parties : TabletStep(p)
  /\ UNCHANGED <<commandVars, videoVars, lifeVars>>

Spec3 == Init /\ [][Next3]_vars

\* The hook as its consumer may call it: the handlers useAgoraCall returns
\* are invoked in whatever state the tablet is in, with no render condition
\* of PhoneCallUI in between.
HookStep(p) ==
  \/ initializeRtm(p)
  \/ MessageFromPeer(p)
  \/ \E t \in targetUserIds(p) : handleInitiateCall(p, t, TRUE)
  \/ handleAcceptCall(p, TRUE)
  \/ handleDeclineCall(p, TRUE)
  \/ handleEndActiveCall(p, TRUE)
  \/ resumeInitiateCall(p)
  \/ resumeAcceptCall(p)
  \/ resumeDeclineCall(p)
  \/ resumeEndActiveCall(p)

\* The two tablets, each driven through the handlers of its hook directly,
\* on the transport of Spec.
NextH ==
  /\ \E p \in {"A", "B"} : HookStep(p)
  /\ UNCHANGED <<commandVars, videoVars, lifeVars>>

SpecH == Init /\ [][NextH]_vars

\* the steps of a tablet p whose user dials nobody and only answers
AnswerStep(p) ==
  \/ initializeRtm(p)
  \/ MessageFromPeer(p)
  \/ AcceptCall(p, {TRUE})
  \/ DeclineCall(p, {TRUE})
  \/ EndCall(p, {TRUE})
  \/ resumeAcceptCall(p)
  \/ resumeDeclineCall(p)
  \/ resumeEndActiveCall(p)

\* Tablet A driven through the handlers of its hook on a connection that
\* may drop and come back, tablet B answering its calls.
NextD ==
  /\ \/ HookStep("A")
     \/ ConnectionStateChanged("A")
     \/ AnswerStep("B")
  /\ UNCHANGED <<commandVars, videoVars, lifeVars>>

SpecD == Init /\ [][NextD]_vars

\* the steps of a tablet p whose accept and decline handlers are called in
\* whatever state it is in, on a transport that may reject their send and
\* whose connection may drop and come back
HookAnswerStep(p) ==
  \/ initializeRtm(p)
  \/ ConnectionStateChanged(p)
  \/ MessageFromPeer(p)
  \/ \E ok \in BOOLEAN : handleAcceptCall(p, ok)
  \/ \E ok \in BOOLEAN : handleDeclineCall(p, ok)
  \/ EndCall(p, {TRUE})
  \/ resumeAcceptCall(p)
  \/ resumeDeclineCall(p)
  \/ resumeEndActiveCall(p)
  \/ sendRejected(p)

\* the steps of a tablet p whose user dials and cancels and never answers
DialStep(p) ==
  \/ initializeRtm(p)
  \/ MessageFromPeer(p)
  \/ InitiateCall(p, {TRUE})
  \/ EndCall(p, {TRUE})
  \/ resumeInitiateCall(p)
  \/ resumeEndActiveCall(p)

\* Tablet B dialing tablet A, whose accept and decline handlers are called
\* directly on an unreliable transport.
NextR ==
  /\ \/ HookAnswerStep("A")
     \/ DialStep("B")
  /\ UNCHANGED <<commandVars, videoVars, lifeVars>>

SpecR == Init /\ [][NextR]_vars

\* the steps of tablet p on the transport of Spec when its user starts no
\* call once a first call was dialed
OneCallStep(p) ==
  \/ initializeRtm(p)
  \/ MessageFromPeer(p)
  \/ nextId = 1 /\ InitiateCall(p, {TRUE})
  \/ AcceptCall(p, {TRUE})
  \/ DeclineCall(p, {TRUE})
  \/ EndCall(p, {TRUE})
  \/ resumeInitiateCall(p)
  \/ resumeAcceptCall(p)
  \/ resumeDeclineCall(p)
  \/ resumeEndActiveCall(p)

\* the transport hands tablet p the oldest signal in flight to it
Delivery(p) ==
  /\ MessageFromPeer(p)
  /\ UNCHANGED <<commandVars, videoVars, lifeVars>>

\* the awaited send of tablet p resolves and its handler resumes
Resumption(p) ==
  /\ \/ resumeInitiateCall(p)
     \/ resumeAcceptCall(p)
     \/ resumeDeclineCall(p)
     \/ resumeEndActiveCall(p)
  /\ UNCHANGED <<commandVars, videoVars, lifeVars>>

\* The two tablets of Spec with one call between them: every signal in
\* flight is delivered and every awaited send resolves.
NextE ==
  /\ \E p \in {"A", "B"} : OneCallStep(p)
  /\ UNCHANGED <<commandVars, videoVars, lifeVars>>

SpecE ==
  /\ Init /\ [][NextE]_vars
  /\ \A p \in {"A", "B"} : WF_vars(Delivery(p)) /\ WF_vars(Resumption(p))

\* the transport hands tablet r a message that is not a CallSignal
OtherMessage(r) ==
  \E text \in OtherTexts :
    \/ handleOtherMessageFromPeer(r, text)
    \/ handleChannelMessage(r, text)

\* The two tablets of Spec on a transport that also carries messages that
\* are not CallSignals.
NextM ==
  /\ \E p \in {"A", "B"} : TabletStep(p) \/ OtherMessage(p)
  /\ UNCHANGED <<commandVars, videoVars, lifeVars>>

SpecM == Init /\ [][NextM]_vars

\* the text of a heartbeat
Heartbeat == "{type:heartbeat}"

\* the transport hands tablet r a heartbeat, as a peer message or as a
\* message of its channel
HeartbeatMessage(r) ==
  \/ handleOtherMessageFromPeer(r, Heartbeat)
  \/ handleChannelMessage(r, Heartbeat)

\* The two tablets of Spec on a transport that also carries heartbeats.
NextK ==
  /\ \E p \in {"A", "B"} : TabletStep(p) \/ HeartbeatMessage(p)
  /\ UNCHANGED <<commandVars, videoVars, lifeVars>>

SpecK == Init /\ [][NextK]_vars

\* ------------------------------------------- CommandPage (the dashboard)
\* the index of userId's record in onlineUsers, 0 if it has none
\* (prev.find((user) => user.userId === userId))
find(userId) ==
  IF \E i \in 1..Len(onlineUsers) : onlineUsers[i].userId = userId
    THEN CHOOSE i \in 1..Len(onlineUsers) :
           /\ onlineUsers[i].userId = userId
           /\ \A j \in 1..(i - 1) : onlineUsers[j].userId # userId
    ELSE 0

\* updateUserPresence without the lookup of an existing record
updateUserPresence_AlwaysAppends(userId, isOnline) ==
  onlineUsers' =
    Append(onlineUsers,
           [userId |-> userId, lastSeen |-> now, isOnline |-> isOnline])

\* updateUserPresence(userId, isOnline): every record of userId gets
\* lastSeen = Date.now() and isOnline; without one, a record is appended
updateUserPresence(userId, isOnline) ==
  onlineUsers' =
    IF find(userId) # 0
      THEN [i \in 1..Len(onlineUsers) |->
              IF onlineUsers[i].userId = userId
                THEN [onlineUsers[i] EXCEPT !.lastSeen = now,
                                            !.isOnline = isOnline]
                ELSE onlineUsers[i]]
      ELSE Append(onlineUsers,
                  [userId |-> userId, lastSeen |-> now, isOnline |-> isOnline])

\* the texts of the channel messages the dashboard receives: the heartbeats
\* of the tablets and a message of another type
heartbeatText(userId) == "{type:heartbeat,userId:" \o userId \o "}"

heartbeatUserId(text) == CHOOSE u \in Users : heartbeatText(u) = text

ChannelTexts == {heartbeatText(u) : u \in Users} \cup {"{type:PING}"}

\* CommandPage's handleChannelMessage: a heartbeat updates the presence of
\* its userId, a text that is no JSON sets the error, the rest is ignored
commandChannelMessage(text) ==
  /\ commandConnected
  /\ IF text \in {heartbeatText(u) : u \in Users}
       THEN /\ updateUserPresence(heartbeatUserId(text), TRUE)
            /\ UNCHANGED commandError
       ELSE /\ commandError' = errorAfterParse(JSONparse(text), commandError)
            /\ UNCHANGED onlineUsers
  /\ UNCHANGED <<commandConnected, now, nextCleanup>>

\* cleanupOfflineUsers with the age compared by <= instead of <
cleanupOfflineUsers_Inclusive ==
  onlineUsers' =
    [i \in 1..Len(onlineUsers) |->
       [onlineUsers[i] EXCEPT !.isOnline =
          onlineUsers[i].isOnline
            /\ now - onlineUsers[i].lastSeen <= OFFLINE_THRESHOLD]]

\* cleanupOfflineUsers: isOnline && now - lastSeen < OFFLINE_THRESHOLD
cleanupOfflineUsers ==
  onlineUsers' =
    [i \in 1..Len(onlineUsers) |->
       [onlineUsers[i] EXCEPT !.isOnline =
          onlineUsers[i].isOnline
            /\ now - onlineUsers[i].lastSeen < OFFLINE_THRESHOLD]]

\* the cleanup timer fires (setInterval, every 5 seconds)
cleanupTimer ==
  /\ now = nextCleanup
  /\ cleanupOfflineUsers
  /\ nextCleanup' = now + CleanupInterval
  /\ UNCHANGED <<commandConnected, commandError, now>>

\* CommandPage's initializeRtm: client.login succeeded, the channel joined
commandInitializeRtm ==
  /\ ~commandConnected
  /\ commandConnected' = TRUE
  /\ UNCHANGED <<onlineUsers, commandError, now, nextCleanup>>

\* handleConnectionStateChange that also marks everybody offline when the
\* connection is lost
commandConnectionStateChange_MarksOffline(newState) ==
  /\ commandConnected' = (newState = "CONNECTED")
  /\ onlineUsers' =
       IF newState = "CONNECTED" THEN onlineUsers
       ELSE [i \in 1..Len(onlineUsers) |->
               [onlineUsers[i] EXCEPT !.isOnline = FALSE]]
  /\ UNCHANGED <<commandError, now, nextCleanup>>

\* CommandPage's handleConnectionStateChange(newState)
commandConnectionStateChange(newState) ==
  /\ commandConnected' = (newState = "CONNECTED")
  /\ UNCHANGED <<onlineUsers, commandError, now, nextCleanup>>

\* a second passes; the cleanup timer is not late
Tick ==
  /\ now < MaxTime
  /\ now < nextCleanup
  /\ now' = now + 1
  /\ UNCHANGED <<onlineUsers, commandConnected, commandError, nextCleanup>>

\* The dashboard alone: the heartbeats and other channel messages arrive at
\* any time, its connection comes and goes, the cleanup timer runs.
NextP ==
  /\ \/ Tick
     \/ cleanupTimer
     \/ commandInitializeRtm
     \/ \E newState \in ConnectionStates :
          commandConnectionStateChange(newState)
     \/ \E text \in ChannelTexts : commandChannelMessage(text)
  /\ UNCHANGED <<tabletVars, videoVars, lifeVars>>

InitP == InitCall /\ InitCommand /\ InitVideo /\ InitLife

SpecP == InitP /\ [][NextP]_vars

OnlineUsers ==
  [userId : Users, lastSeen : 0..MaxTime, isOnline : BOOLEAN]

\* ------------------------------- VideoCall and useTokenRefresh (the token)
\* isTokenExpired with the remaining time compared by <= instead of <
isTokenExpired_Inclusive ==
  IF tokenExpiresAt = 0 THEN TRUE
  ELSE tokenExpiresAt - clock <= RenewalWindow

\* isTokenExpired that holds only once the token has run out
isTokenExpired_AfterExpiry ==
  IF tokenExpiresAt = 0 THEN TRUE
  ELSE tokenExpiresAt - clock < 0

\* isTokenExpired: no token, or less than 300 s of it left
isTokenExpired ==
  IF tokenExpiresAt = 0 THEN TRUE
  ELSE tokenExpiresAt - clock < RenewalWindow

\* the uid generateToken passes to generateAgoraToken: uid || 0
tokenUid(uid) == IF uid = Undefined THEN 0 ELSE uid

\* a call of generateAgoraToken for uid that answers after latency, with a
\* token (ok) or an error; by and forToken are history: who called, and the
\* tokenExpiresAt stored at the call
issuance(by, latency, ok, uid) ==
  [startedAt |-> clock, doneAt |-> clock + latency, ok |-> ok, by |-> by,
   forToken |-> tokenExpiresAt, uid |-> tokenUid(uid)]

\* the values of Math.floor(Math.random() * 1000000)
Uids == 0..MaxUid

\* joinChannel's sessionUid, currentUid || the random value r
sessionUid(r) == IF currentUid # 0 THEN currentUid ELSE r

\* the effect of useTokenRefresh runs again when isJoined or tokenExpiresAt
\* changed: it clears the interval and, joined and with a token, starts one
refreshEffect ==
  checkAt' =
    IF isJoined' = isJoined /\ tokenExpiresAt' = tokenExpiresAt THEN checkAt
    ELSE IF isJoined' /\ tokenExpiresAt' # 0 THEN clock + CheckInterval
    ELSE 0

\* joinChannel up to its first await: setError(null); there is no token yet
\* (isTokenExpired holds), so generateToken(sessionUid) is called
joinChannel(latency, ok) ==
  /\ ~isJoined /\ ~joining
  /\ isTokenExpired
  /\ joining' = TRUE
  /\ videoError' = NoError
  /\ \E r \in Uids :
       /\ currentUid' = sessionUid(r)
       /\ issuing' = issuing \cup {issuance("join", latency, ok, sessionUid(r))}
  /\ UNCHANGED <<isJoined, tokenExpiresAt, currentToken, checkAt, clock>>

\* generateTokenDone that forgets the stored token when the issuance fails
generateTokenDone_ClearsOnFailure(i) ==
  /\ i \in issuing
  /\ clock = i.doneAt
  /\ issuing' = issuing \ {i}
  /\ IF i.ok
       THEN /\ currentToken' = clock
            /\ tokenExpiresAt' = clock + TokenLifetime
            /\ UNCHANGED <<videoError, joining>>
       ELSE /\ videoError' = IF i.by = "join" THEN ErrJoin ELSE ErrToken
            /\ joining' = IF i.by = "join" THEN FALSE ELSE joining
            /\ currentToken' = NoToken
            /\ tokenExpiresAt' = 0
  /\ UNCHANGED <<isJoined, currentUid, clock>>
  /\ refreshEffect

\* generateToken resumed with the answer i: setCurrentToken and
\* setTokenExpiresAt(expiresAt), or setError and the rethrow, which the
\* check logs and joinChannel's catch shows
generateTokenDone(i) ==
  /\ i \in issuing
  /\ clock = i.doneAt
  /\ issuing' = issuing \ {i}
  /\ IF i.ok
       THEN /\ currentToken' = clock
            /\ tokenExpiresAt' = clock + TokenLifetime
            /\ UNCHANGED <<videoError, joining>>
       ELSE /\ videoError' = IF i.by = "join" THEN ErrJoin ELSE ErrToken
            /\ joining' = IF i.by = "join" THEN FALSE ELSE joining
            /\ UNCHANGED <<currentToken, tokenExpiresAt>>
  /\ UNCHANGED <<isJoined, currentUid, clock>>
  /\ refreshEffect

\* joinChannel resumed after client.join: setIsJoined(true)
joined ==
  /\ joining /\ ~isJoined
  /\ tokenExpiresAt # 0
  /\ \A i \in issuing : i.by # "join"
  /\ isJoined' = TRUE
  /\ joining' = FALSE
  /\ UNCHANGED <<tokenExpiresAt, currentToken, currentUid, videoError,
                 issuing, clock>>
  /\ refreshEffect

\* checkTokenExpiry, run by the interval: it calls generateToken when
\* isTokenExpired holds
checkTokenExpiry ==
  /\ checkAt # 0 /\ clock = checkAt
  /\ checkAt' = clock + CheckInterval
  /\ IF isTokenExpired
       THEN \E latency \in Latencies, ok \in BOOLEAN :
              issuing' =
                issuing \cup {issuance("check", latency, ok, Undefined)}
       ELSE UNCHANGED issuing
  /\ UNCHANGED <<isJoined, joining, tokenExpiresAt, currentToken, currentUid,
                 videoError, clock>>

\* the times at which something is due
dueTimes == {i.doneAt : i \in issuing} \cup (IF checkAt # 0 THEN {checkAt} ELSE {})

\* time passes until the next answer or timer is due
Pass ==
  /\ dueTimes # {}
  /\ \A t \in dueTimes : t > clock
  /\ clock' = CHOOSE t \in dueTimes : \A u \in dueTimes : t <= u
  /\ clock' <= MaxClock
  /\ UNCHANGED <<isJoined, joining, tokenExpiresAt, currentToken, currentUid,
                 videoError, issuing, checkAt>>

\* The video call alone: it joins, and its token is checked every minute.
NextV ==
  /\ \/ \E latency \in Latencies, ok \in BOOLEAN : joinChannel(latency, ok)
     \/ \E i \in issuing : generateTokenDone(i)
     \/ joined
     \/ checkTokenExpiry
     \/ Pass
  /\ UNCHANGED <<tabletVars, commandVars, lifeVars>>

SpecV == Init /\ [][NextV]_vars

Issuances ==
  [startedAt : 0..MaxClock, doneAt : 0..(MaxClock + 80), ok : BOOLEAN,
   by : {"join", "check"}, forToken : 0..(MaxClock + TokenLifetime),
   uid : Uids]

\* --------------------- tablet A's connection to the messaging service
\* the tablet whose mount, login, channel join and unmount are followed
Self == "A"

\* setIsConnected(v); React ignores the set of an unmounted component
setIsConnected(v) ==
  isConnected' = IF mounted THEN [isConnected EXCEPT ![Self] = v]
                 ELSE isConnected

\* handleError(err, ...) of tablet A: setError(err.message)
handleError(msg) ==
  error' = IF mounted THEN [error EXCEPT ![Self] = msg] ELSE error

\* the call variables that the connection handlers never write
callRest ==
  <<callState, currentCall, currentTargetUserId, showVideoCall,
    currentCallIdRef, ringing, pending, net, nextId, att, idAtt, applied>>

\* the heartbeat effect: it runs again when isConnected or channel changed,
\* clears its interval and, connected, starts a new one; the unmount clears
\* the interval
heartbeatEffect ==
  hbAt' =
    IF ~mounted' THEN 0
    ELSE IF isConnected'[Self] = isConnected[Self]
            /\ hookChannel' = hookChannel THEN hbAt
    ELSE IF isConnected'[Self] THEN now + HeartbeatInterval
    ELSE 0

\* the cleanup of the initializeRtm effect: client.off of the two handlers
\* (of one registration, if there is one)
cleanupListeners ==
  clientListeners' = IF clientListeners > 0 THEN clientListeners - 1 ELSE 0

\* initializeRtm resumed with the answer of generateRtmTokenForUser: it
\* registers handleConnectionStateChange and handleMessageFromPeer and calls
\* client.login with the token; or the token failed and the catch shows it
rtmTokenDone(ok) ==
  /\ rtmRun = "token"
  /\ IF ok
       THEN /\ clientListeners' = clientListeners + 1
            /\ attempts' = <<"token">>
            /\ rtmRun' = "login"
            /\ UNCHANGED error
       ELSE /\ handleError(ErrRtmToken)
            /\ rtmRun' = "none"
            /\ UNCHANGED <<clientListeners, attempts>>
  /\ UNCHANGED <<isConnected, callRest, mounted, hookChannel, channelSubs,
                 channelRef, loggedIn, joinTried, runs, hbAt, lastHeartbeat>>

\* a login succeeded: setIsConnected(true), then handleJoinChannel(channel)
\* up to its await of rtmChannel.join(): setError(null), the channel is
\* created and handleChannelMessage registered on it
loginSucceeded ==
  /\ loggedIn' = TRUE
  /\ setIsConnected(TRUE)
  /\ handleError(NoError)
  /\ joinTried' = TRUE
  /\ rtmRun' = "join"
  /\ UNCHANGED attempts

\* initializeRtm resumed with the answer of client.login({uid, token}): on
\* a rejection the inner catch calls client.login({uid})
loginDone(ok) ==
  /\ rtmRun = "login"
  /\ IF ok
       THEN loginSucceeded
       ELSE /\ attempts' = Append(attempts, "plain")
            /\ rtmRun' = "fallback"
            /\ UNCHANGED <<isConnected, error, loggedIn, joinTried>>
  /\ UNCHANGED <<callRest, mounted, hookChannel, clientListeners, channelSubs,
                 channelRef, runs, lastHeartbeat>>
  /\ heartbeatEffect

\* fallbackLoginDone that marks the tablet connected before it looks at
\* the answer
fallbackLoginDone_MarksConnected(ok) ==
  /\ rtmRun = "fallback"
  /\ IF ok
       THEN loginSucceeded
       ELSE /\ setIsConnected(TRUE)
            /\ handleError(ErrLogin)
            /\ rtmRun' = "none"
            /\ UNCHANGED <<loggedIn, joinTried, attempts>>
  /\ UNCHANGED <<callRest, mounted, hookChannel, clientListeners, channelSubs,
                 channelRef, runs, lastHeartbeat>>
  /\ heartbeatEffect

\* initializeRtm resumed with the answer of client.login({uid}): on a
\* rejection the outer catch shows the error and initializeRtm ends
fallbackLoginDone(ok) ==
  /\ rtmRun = "fallback"
  /\ IF ok
       THEN loginSucceeded
       ELSE /\ handleError(ErrLogin)
            /\ rtmRun' = "none"
            /\ UNCHANGED <<isConnected, loggedIn, joinTried, attempts>>
  /\ UNCHANGED <<callRest, mounted, hookChannel, clientListeners, channelSubs,
                 channelRef, runs, lastHeartbeat>>
  /\ heartbeatEffect

\* joinDone that treats a failed join as a lost connection
joinDone_Disconnects(ok) ==
  /\ rtmRun = "join"
  /\ rtmRun' = "none"
  /\ IF ok
       THEN /\ channelRef' = hookChannel
            /\ channelSubs' = [channelSubs EXCEPT ![hookChannel] = @ + 1]
            /\ UNCHANGED <<error, isConnected>>
       ELSE /\ handleError(ErrChannelJoin)
            /\ setIsConnected(FALSE)
            /\ UNCHANGED <<channelRef, channelSubs>>
  /\ UNCHANGED <<callRest, mounted, hookChannel, clientListeners,
                 loggedIn, attempts, joinTried, runs, hbAt, lastHeartbeat>>

\* handleJoinChannel resumed with the answer of rtmChannel.join():
\* setChannel(channelName) and channelRef.current = rtmChannel, or its catch
\* shows the error; initializeRtm ends
joinDone(ok) ==
  /\ rtmRun = "join"
  /\ rtmRun' = "none"
  /\ IF ok
       THEN /\ channelRef' = hookChannel
            /\ channelSubs' = [channelSubs EXCEPT ![hookChannel] = @ + 1]
            /\ UNCHANGED error
       ELSE /\ handleError(ErrChannelJoin)
            /\ UNCHANGED <<channelRef, channelSubs>>
  /\ UNCHANGED <<isConnected, callRest, mounted, hookChannel, clientListeners,
                 loggedIn, attempts, joinTried, runs, hbAt, lastHeartbeat>>

\* handleSettingsSave with another channel, while no initializeRtm is
\* running: setChannel makes the effect run again, its cleanup first, then
\* a new initializeRtm up to its await of the token
handleSettingsSave(newChannel) ==
  /\ mounted /\ rtmRun = "none"
  /\ runs < MaxRuns
  /\ newChannel # hookChannel
  /\ hookChannel' = newChannel
  /\ cleanupListeners
  /\ rtmRun' = "token"
  /\ attempts' = <<>>
  /\ joinTried' = FALSE
  /\ runs' = runs + 1
  /\ UNCHANGED <<isConnected, error, callRest, mounted, channelSubs,
                 channelRef, loggedIn, lastHeartbeat>>
  /\ heartbeatEffect

\* the hook is unmounted: the cleanups of its effects run
unmount ==
  /\ mounted
  /\ mounted' = FALSE
  /\ cleanupListeners
  /\ UNCHANGED <<isConnected, error, callRest, rtmRun, hookChannel,
                 channelSubs, channelRef, loggedIn, attempts, joinTried, runs,
                 lastHeartbeat>>
  /\ heartbeatEffect

\* the client reports a connection state to the registered handler
connectionStateChanged(newState) ==
  /\ mounted /\ loggedIn /\ clientListeners > 0
  /\ handleConnectionStateChange(Self, newState)
  /\ UNCHANGED <<mounted, rtmRun, hookChannel, clientListeners, channelSubs,
                 channelRef, loggedIn, attempts, joinTried, runs,
                 lastHeartbeat>>
  /\ heartbeatEffect

\* sendHeartbeat without the check of channelRef.current
sendHeartbeat_NoChannelCheck ==
  /\ hbAt # 0 /\ now = hbAt
  /\ hbAt' = now + HeartbeatInterval
  /\ lastHeartbeat' =
       [at |-> now, text |-> heartbeatText(Self), channel |-> channelRef]
  /\ UNCHANGED <<tabletVars, mounted, rtmRun, hookChannel, clientListeners,
                 channelSubs, channelRef, loggedIn, attempts, joinTried, runs>>

\* sendHeartbeat, run by the heartbeat interval: with a joined channel it
\* sends the heartbeat of userId on it
sendHeartbeat ==
  /\ hbAt # 0 /\ now = hbAt
  /\ hbAt' = now + HeartbeatInterval
  /\ lastHeartbeat' =
       IF channelRef # NoChannel
         THEN [at |-> now, text |-> heartbeatText(Self), channel |-> channelRef]
         ELSE lastHeartbeat
  /\ UNCHANGED <<tabletVars, mounted, rtmRun, hookChannel, clientListeners,
                 channelSubs, channelRef, loggedIn, attempts, joinTried, runs>>

\* a second passes; the heartbeat interval is not late
Second ==
  /\ now < MaxBeat
  /\ hbAt # 0 => now < hbAt
  /\ now' = now + 1
  /\ UNCHANGED <<tabletVars, lifeVars>>

\* the steps of initializeRtm of tablet A
InitializeStep ==
  \/ \E ok \in BOOLEAN : rtmTokenDone(ok)
  \/ \E ok \in BOOLEAN : loginDone(ok)
  \/ \E ok \in BOOLEAN : fallbackLoginDone(ok)
  \/ \E ok \in BOOLEAN : joinDone(ok)

\* those steps, and the connection states the client reports
LoginStep ==
  \/ InitializeStep
  \/ \E newState \in ConnectionStates : connectionStateChanged(newState)

\* the steps of the connection of tablet A
ConnectionStep ==
  \/ LoginStep
  \/ \E newChannel \in Channels : handleSettingsSave(newChannel)
  \/ unmount

\* the intents of the user of tablet A while its hook is mounted, and the
\* signals it receives through the handler registered on the client
CallStep ==
  /\ mounted
  /\ \/ clientListeners > 0 /\ MessageFromPeer(Self)
     \/ InitiateCall(Self, {TRUE})
     \/ AcceptCall(Self, {TRUE})
     \/ DeclineCall(Self, {TRUE})
     \/ EndCall(Self, {TRUE})
     \/ resumeInitiateCall(Self)
     \/ resumeAcceptCall(Self)
     \/ resumeDeclineCall(Self)
     \/ resumeEndActiveCall(Self)
  /\ UNCHANGED lifeVars

\* Tablet A from its mount on: it logs in, joins its channel, changes its
\* channel, and is unmounted at any time.
NextL ==
  /\ ConnectionStep
  /\ UNCHANGED <<commandVars, videoVars>>

SpecL == Init /\ [][NextL]_vars

\* Tablet A from its mount on, its token and login succeeding and its
\* channel join succeeding or failing, while its user and tablet B call each
\* other.
NextJ ==
  /\ \/ rtmTokenDone(TRUE)
     \/ loginDone(TRUE)
     \/ \E ok \in BOOLEAN : joinDone(ok)
     \/ CallStep
     \/ TabletStep("B") /\ UNCHANGED lifeVars
  /\ UNCHANGED <<commandVars, videoVars>>

SpecJ == Init /\ [][NextJ]_vars

\* Tablet A from its mount on, with the seconds that pass and its heartbeat
\* interval.
NextB ==
  /\ \/ ConnectionStep /\ UNCHANGED now
     \/ sendHeartbeat /\ UNCHANGED now
     \/ Second
  /\ UNCHANGED <<onlineUsers, commandConnected, commandError, nextCleanup>>
  /\ UNCHANGED videoVars

SpecB == Init /\ [][NextB]_vars

Heartbeats ==
  [at : 0..MaxBeat, text : {"", heartbeatText(Self)},
   channel : Channels \cup {NoChannel}]

TypeOK ==
  /\ mounted \in BOOLEAN
  /\ rtmRun \in {"none", "token", "login", "fallback", "join"}
  /\ hookChannel \in Channels
  /\ clientListeners \in 0..MaxRuns
  /\ channelSubs \in [Channels -> 0..MaxRuns]
  /\ channelRef \in Channels \cup {NoChannel}
  /\ loggedIn \in BOOLEAN
  /\ attempts \in {<<>>, <<"token">>, <<"token", "plain">>}
  /\ joinTried \in BOOLEAN
  /\ runs \in 1..MaxRuns
  /\ hbAt \in 0..(MaxBeat + HeartbeatInterval)
  /\ lastHeartbeat \in Heartbeats
  /\ isJoined \in BOOLEAN
  /\ joining \in BOOLEAN
  /\ tokenExpiresAt \in 0..(MaxClock + TokenLifetime)
  /\ currentToken \in {NoToken} \cup 1..MaxClock
  /\ currentUid \in Uids
  /\ videoError \in {NoError, ErrToken, ErrJoin}
  /\ issuing \subseteq Issuances
  /\ checkAt \in 0..(MaxClock + CheckInterval)
  /\ clock \in 0..MaxClock
  /\ onlineUsers \in Seq(OnlineUsers)
  /\ commandConnected \in BOOLEAN
  /\ commandError \in Errors
  /\ now \in 0..MaxTime
  /\ nextCleanup \in 1..(MaxTime + CleanupInterval)
  /\ callState \in [Parties -> CallStates]
  /\ currentCall \in [Parties -> Signals \cup {NoCall}]
  /\ error \in [Parties -> Errors]
  /\ currentTargetUserId \in [Parties -> Parties \cup {NoTarget}]
  /\ showVideoCall \in [Parties -> BOOLEAN]
  /\ isConnected \in [Parties -> BOOLEAN]
  /\ currentCallIdRef \in [Parties -> 0..MaxIds]
  /\ ringing \in [Parties -> BOOLEAN]
  /\ pending \in [Parties -> Pendings]
  /\ nextId \in 1..(MaxIds + 1)
  /\ att \in [Parties -> 0..MaxIds]
  /\ idAtt \in [Ids -> 0..MaxIds]
  /\ applied \in [Parties -> Applieds]
  /\ \A s, r \in Parties :
       /\ Len(net[s][r]) <= MaxQueue
       /\ \A i \in 1..Len(net[s][r]) : net[s][r][i] \in Signals

\* ------------------------------------------------------------ properties
\* the signals in flight
InFlight ==
  {net[s][r][i] : <<s, r, i>> \in
     {t \in Parties \X Parties \X (1..MaxQueue) : t[3] <= Len(net[t[1]][t[2]])}}

\* the oldest signal in flight from s to r
Oldest(s, r) == IF net[s][r] # <<>> THEN Head(net[s][r]) ELSE NoCall

\* the step delivers to r a signal of the given type that s sent
Delivers(s, r, type) ==
  /\ net[s][r] # <<>>
  /\ Head(net[s][r]).type = type
  /\ net'[s][r] = Tail(net[s][r])

\* no handler of p is suspended at its await
Settled(p) == pending[p] = "none"

\* the counterpart of the call p is in: the sender of currentCall, else the
\* dialed target
Counterpart(p) == endTarget(p)

\* C1: in every state between two handlers, CallState is one of the five
\* values and the call id a tablet holds (currentCallIdRef) is non-null if and
\* only if its CallState is not IDLE.
C1_CallIdIffNotIdle ==
  \A p \in Parties :
    Settled(p) =>
      /\ callState[p] \in CallStates
      /\ (currentCallIdRef[p] # NoId) <=> (callState[p] # "IDLE")

\* C2: when a dialed b, b accepted and a received the CALL_ACCEPTED, so that
\* both are CONNECTED in the attempt a started, both hold the call id a
\* allocated for the INCOMING_CALL.
C2_AcceptedSameCallId ==
  \A a, b \in Parties :
    ( /\ a # b
      /\ Settled(a) /\ Settled(b)
      /\ callState[a] = "CONNECTED" /\ callState[b] = "CONNECTED"
      /\ currentCall[b].type = "INCOMING_CALL" /\ currentCall[b].from = a
      /\ currentCall[a].type = "CALL_ACCEPTED" /\ currentCall[a].from = b
      /\ att[a] = currentCall[b].callId /\ att[b] = att[a] )
    => /\ currentCallIdRef[a] = currentCall[b].callId
       /\ currentCallIdRef[b] = currentCall[b].callId

\* C3: decline flow.  An INCOMING_CALL with callId k received in IDLE makes
\* the tablet RINGING with currentCall.callId = k; the CALL_DECLINED the
\* caller then receives for its attempt carries k, takes the caller from
\* CALLING to IDLE with the decline error and leaves its call id null, and
\* the callee that has finished declining holds no call id either.
C3_DeclineFlow ==
  [][\A s, r \in Parties :
       /\ ( Delivers(s, r, "INCOMING_CALL")
            /\ callState[r] = "IDLE" /\ Settled(r) )
          => /\ callState'[r] = "RINGING"
             /\ currentCall'[r].callId = Oldest(s, r).callId
       /\ ( Delivers(s, r, "CALL_DECLINED")
            /\ callState[r] = "CALLING" /\ Settled(r)
            /\ att[r] # NoId /\ Oldest(s, r).att = att[r] )
          => /\ Oldest(s, r).callId = att[r]
             /\ callState'[r] = "IDLE"
             /\ error'[r] = ErrDeclined
             /\ currentCallIdRef'[r] = NoId
             /\ (Settled(s) /\ callState[s] = "IDLE")
                  => currentCallIdRef'[s] = NoId
    ]_vars

CallOf(p) == <<callState[p], currentCall[p]>>

\* C5: an INCOMING_CALL received while the tablet is CALLING, RINGING or
\* CONNECTED replaces neither currentCall nor the CallState of the call in
\* progress.
C5_SecondIncomingIgnored ==
  [][\A s, r \in Parties :
       ( Delivers(s, r, "INCOMING_CALL") /\ Settled(r)
         /\ callState[r] \in {"CALLING", "RINGING", "CONNECTED"} )
       => CallOf(r)' = CallOf(r)
    ]_vars

\* C6: every CALL_ACCEPTED, CALL_DECLINED or CALL_ENDED sent for a call
\* carries the callId of the INCOMING_CALL that started the call.
C6_SignalsCarryCallId ==
  \A s, r \in Parties :
    ( net[s][r] # <<>> /\ Oldest(s, r).att # NoId )
    => Oldest(s, r).callId = Oldest(s, r).att

\* C7: a CALL_ACCEPTED, CALL_DECLINED or CALL_ENDED that belongs to an
\* earlier call attempt, and carries a callId other than the one of the call
\* now in progress, changes neither CallState nor currentCall.
C7_StaleSignalIgnored ==
  [][\A s, r \in Parties :
       ( /\ \/ Delivers(s, r, "CALL_ACCEPTED")
            \/ Delivers(s, r, "CALL_DECLINED")
            \/ Delivers(s, r, "CALL_ENDED")
         /\ Settled(r) /\ callState[r] # "IDLE" /\ att[r] # NoId
         /\ Oldest(s, r).att # NoId /\ Oldest(s, r).att # att[r]
         /\ Oldest(s, r).callId # currentCallIdRef[r]
         /\ Oldest(s, r).callId # att[r] )
       => CallOf(r)' = CallOf(r)
    ]_vars

\* C8: a signal whose `to` is not the receiving tablet, or whose `from` is
\* not the counterpart of the call in progress, leaves CallState,
\* currentCall, the call id and the alert unchanged.
C8_ForeignSignalIgnored ==
  [][\A s, r \in Parties :
       ( /\ net[s][r] # <<>> /\ net'[s][r] = Tail(net[s][r])
         /\ Settled(r)
         /\ \/ Oldest(s, r).to # r
            \/ /\ callState[r] # "IDLE"
               /\ Counterpart(r) # NoTarget
               /\ Oldest(s, r).from # Counterpart(r) )
       => /\ CallOf(r)' = CallOf(r)
          /\ currentCallIdRef'[r] = currentCallIdRef[r]
          /\ ringing'[r] = ringing[r]
    ]_vars

\* C9: no callId is carried by signals of two different call attempts.
C9_CallIdNeverReused ==
  \A s, r \in Parties :
    ( net[s][r] # <<>> /\ Oldest(s, r).att # NoId )
    => idAtt[Oldest(s, r).callId] = Oldest(s, r).att

\* C10: CallState becomes CONNECTED only when a CALL_ACCEPTED is received in
\* CALLING or when the local accept of a RINGING tablet completes (stated
\* for the steps of a tablet with no other handler suspended).
C10_ConnectedOnlyByTable ==
  [][\A p \in Parties :
       ( /\ callState[p] # "CONNECTED" /\ callState'[p] = "CONNECTED"
         /\ pending[p] \in {"none", "accept"} )
       => \/ /\ callState[p] = "CALLING"
             /\ \E s \in Parties : Delivers(s, p, "CALL_ACCEPTED")
          \/ /\ callState[p] = "RINGING"
             /\ pending[p] = "accept" /\ pending'[p] = "none"
    ]_vars

\* tablet p enters the handler of intent op and hands a signal to the
\* transport
IntentEntered(p, op) ==
  pending[p] = "none" /\ pending'[p] \in {op, Rejected(op)}

\* C11: local intents are validated against the CallState: initiateCall
\* sends its signal only when issued in IDLE, acceptCall and declineCall only
\* when issued in RINGING; issued in another state they send nothing and
\* leave CallState, currentCall and the call id as they were.
C11_IntentsValidated ==
  [][\A p \in Parties :
       /\ IntentEntered(p, "initiate")
          => /\ callState[p] = "IDLE"
             /\ CallOf(p)' = CallOf(p)
       /\ (IntentEntered(p, "accept") \/ IntentEntered(p, "decline"))
          => /\ callState[p] = "RINGING"
             /\ CallOf(p)' = CallOf(p)
    ]_vars

\* the end handler of tablet p finishes in this step: its continuation or
\* its catch runs, or it ran through without suspending
EndFinished(p) ==
  \/ pending[p] \in {"end", Rejected("end")} /\ pending'[p] = "none"
  \/ /\ \E ok \in BOOLEAN : handleEndActiveCall(p, ok)
     /\ pending'[p] = "none"

\* C12: a local end or cancel of a tablet that is CALLING or CONNECTED
\* finishes with CallState IDLE, currentCall and the call id cleared and the
\* video view closed, whatever the transport does; the end intent in IDLE
\* sends nothing and changes nothing.
C12_EndAlwaysCompletes ==
  [][\A p \in Parties :
       /\ (EndFinished(p) /\ callState[p] \in {"CALLING", "CONNECTED"})
          => /\ callState'[p] = "IDLE"
             /\ currentCall'[p] = NoCall
             /\ currentCallIdRef'[p] = NoId
             /\ ~showVideoCall'[p]
       /\ ( /\ \E ok \in BOOLEAN : handleEndActiveCall(p, ok)
            /\ callState[p] = "IDLE" )
          => UNCHANGED vars
    ]_vars

\* the step puts a signal of the given type from p to r in flight
SendsTo(p, r, type) ==
  /\ Len(net'[p][r]) = Len(net[p][r]) + 1
  /\ net'[p][r][Len(net'[p][r])].type = type
  /\ net'[p][r][Len(net'[p][r])].to = r

\* the step puts no signal of p in flight
SendsNothing(p) == \A r \in Parties : Len(net'[p][r]) <= Len(net[p][r])

\* C13: the end intent of a connected tablet that is not IDLE addresses its
\* CALL_ENDED to the call's counterpart: currentCall.from if a signal was
\* received, else the dialed target; with neither known it resets to IDLE,
\* sends nothing and sets no error.  In particular a tablet that dialed t
\* and cancels while CALLING sends the CALL_ENDED to t.
C13_EndAddressedToCounterpart ==
  [][\A p \in Parties :
       ( /\ handleEndActiveCall(p, TRUE)
         /\ callState[p] # "IDLE" /\ isConnected[p] )
       => /\ Counterpart(p) # NoTarget
             => SendsTo(p, Counterpart(p), "CALL_ENDED")
          /\ Counterpart(p) = NoTarget
             => /\ SendsNothing(p)
                /\ callState'[p] = "IDLE"
                /\ error'[p] = NoError
          /\ (callState[p] = "CALLING" /\ currentTargetUserId[p] # NoTarget)
             => SendsTo(p, currentTargetUserId[p], "CALL_ENDED")
    ]_vars

\* C14: while the connected flag of a tablet is false it emits no signal;
\* initiateCall then fails at once with the "not connected" error, leaves
\* the CallState as it is and leaves nothing behind that sends later.
C14_NotConnectedFailsFast ==
  [][\A p \in Parties :
       /\ ~isConnected[p] => SendsNothing(p)
       /\ ( /\ ~isConnected[p]
            /\ \E t \in targetUserIds(p) : handleInitiateCall(p, t, TRUE) )
          => /\ error'[p] = ErrNotConnected
             /\ callState'[p] = callState[p]
             /\ pending'[p] = "none"
    ]_vars

\* C14 witness: a tablet that is IDLE and not connected was asked to dial:
\* it shows the error, nothing of it is in flight and no handler is waiting
C14_Witness ==
  \E p \in Parties :
    /\ ~isConnected[p] /\ callState[p] = "IDLE"
    /\ currentTargetUserId[p] # NoTarget
    /\ error[p] = ErrNotConnected
    /\ Settled(p)
    /\ \A r \in Parties : net[p][r] = <<>>

\* C15: a peer or channel message that does not parse as a CallSignal is
\* dropped silently: CallState, currentCall, the call id and the error the
\* user sees are as before.
C15_MalformedDropped ==
  [][\A r \in Parties :
       ( \E text \in OtherTexts :
           \/ handleOtherMessageFromPeer(r, text)
           \/ handleChannelMessage(r, text) )
       => /\ CallOf(r)' = CallOf(r)
          /\ currentCallIdRef'[r] = currentCallIdRef[r]
          /\ error'[r] = error[r]
    ]_vars

\* the record of user u, which find(u) # 0 says exists
recordOf(u) == onlineUsers[find(u)]

\* the time since the dashboard last heard a heartbeat of u
silence(u) == now - recordOf(u).lastSeen

\* the step is a run of the cleanup timer
IsCleanup == now = nextCleanup /\ nextCleanup' = now + CleanupInterval

\* C16: the record of X goes offline exactly in a cleanup run at which no
\* heartbeat of X was seen for 30 s or more (now - lastSeen >= 30), and a
\* heartbeat of X makes it online at once.  So a record heard of less than
\* 30 s ago is online (heartbeats at 0 and 9: online at the cleanup at 12),
\* and after a cleanup run a record silent for 30 s or more is offline
\* (nothing after 9: offline at the cleanup at 42).
C16_OfflineAfterSilence ==
  [][\A u \in Users :
       /\ find(u) # 0
          => /\ (recordOf(u).isOnline /\ ~recordOf(u)'.isOnline)
                  <=> ( /\ IsCleanup
                        /\ recordOf(u).isOnline
                        /\ silence(u) >= OFFLINE_THRESHOLD )
       /\ commandChannelMessage(heartbeatText(u))
          => /\ find(u)' # 0
             /\ recordOf(u)'.isOnline
             /\ recordOf(u)'.lastSeen = now
       /\ find(u)' # 0
          => /\ silence(u)' < OFFLINE_THRESHOLD => recordOf(u)'.isOnline
             /\ (IsCleanup /\ silence(u)' >= OFFLINE_THRESHOLD)
                  => ~recordOf(u)'.isOnline
    ]_vars

\* C16 witness: the cleanup run at 42 has just set offline a record whose
\* last heartbeat came at 9
C16_Witness ==
  \E u \in Users :
    /\ find(u) # 0
    /\ recordOf(u).lastSeen = 9 /\ ~recordOf(u).isOnline
    /\ now = 42 /\ nextCleanup = 42 + CleanupInterval

\* C17: only a run of the cleanup timer changes the isOnline of a record
\* from true to false; the run changes no lastSeen, adds and removes no
\* record and turns no offline record online.
C17_OnlyCleanupSetsOffline ==
  [][/\ \A i \in 1..Len(onlineUsers) :
          ( /\ onlineUsers[i].isOnline
            /\ \/ i > Len(onlineUsers')
               \/ ~onlineUsers'[i].isOnline )
          => IsCleanup
     /\ IsCleanup
          => /\ Len(onlineUsers') = Len(onlineUsers)
             /\ \A i \in 1..Len(onlineUsers) :
                  /\ onlineUsers'[i].userId = onlineUsers[i].userId
                  /\ onlineUsers'[i].lastSeen = onlineUsers[i].lastSeen
                  /\ ~onlineUsers[i].isOnline => ~onlineUsers'[i].isOnline
    ]_vars

\* C17 witness: the cleanup timer has just run over a record that was
\* offline before the run and over one that is still online
C17_Witness ==
  /\ nextCleanup = now + CleanupInterval
  /\ \E i, j \in 1..Len(onlineUsers) :
       /\ ~onlineUsers[i].isOnline
       /\ now - onlineUsers[i].lastSeen >= OFFLINE_THRESHOLD + CleanupInterval
       /\ onlineUsers[j].isOnline

\* C18: the list holds one record per identity a heartbeat was heard of: a
\* heartbeat of an identity without a record appends one, a heartbeat of an
\* identity with a record changes no other and adds none, no two records
\* share a userId, and no step removes or renames a record.
C18_OneRecordPerIdentity ==
  [][/\ Len(onlineUsers') >= Len(onlineUsers)
     /\ \A i \in 1..Len(onlineUsers) :
          onlineUsers'[i].userId = onlineUsers[i].userId
     /\ \A i, j \in 1..Len(onlineUsers') :
          onlineUsers'[i].userId = onlineUsers'[j].userId => i = j
     /\ \A u \in Users :
          commandChannelMessage(heartbeatText(u))
          => /\ find(u)' # 0
             /\ find(u) # 0 => Len(onlineUsers') = Len(onlineUsers)
     /\ Len(onlineUsers') > Len(onlineUsers)
          => /\ Len(onlineUsers') = Len(onlineUsers) + 1
             /\ \E u \in Users :
                  /\ commandChannelMessage(heartbeatText(u))
                  /\ find(u) = 0
                  /\ onlineUsers'[Len(onlineUsers')].userId = u
    ]_vars

\* C18 witness: both identities have their record, and the one created
\* first was updated by a later heartbeat than the other
C18_Witness ==
  /\ Len(onlineUsers) = 2
  /\ onlineUsers[1].userId # onlineUsers[2].userId
  /\ onlineUsers[1].lastSeen > onlineUsers[2].lastSeen

\* the step is a run of checkTokenExpiry by the interval of useTokenRefresh
IsCheck ==
  /\ checkAt # 0 /\ clock = checkAt
  /\ checkAt' = clock + CheckInterval
  /\ clock' = clock /\ tokenExpiresAt' = tokenExpiresAt

\* the calls of generateAgoraToken the step starts on behalf of the check
StartedByCheck == {i \in issuing' \ issuing : i.by = "check"}

\* the time left of the stored token
remaining == tokenExpiresAt - clock

\* C19: a periodic check calls the token issuance if and only if
\* expiresAt - now < 300 s at that check; a token with 300 s or more left is
\* never refreshed by the periodic check, and no periodic check runs (none
\* is even scheduled) while the component is not joined or has no token.
C19_CheckRefreshesInWindow ==
  [][/\ IsCheck
          => /\ (StartedByCheck # {}) <=> (remaining < RenewalWindow)
             /\ isJoined /\ tokenExpiresAt # 0
     /\ StartedByCheck # {}
          => /\ IsCheck
             /\ remaining < RenewalWindow
     /\ checkAt' # 0 => (isJoined' /\ tokenExpiresAt' # 0)
    ]_vars

\* C19 witness: a refresh is in flight that the check started with 240 s
\* left, one interval after the check that found exactly 300 s left and
\* started none
C19_Witness ==
  \E i \in issuing :
    /\ i.by = "check"
    /\ i.forToken - i.startedAt < RenewalWindow
    /\ i.forToken - (i.startedAt - CheckInterval) = RenewalWindow
    /\ \A j \in issuing : j = i
    /\ isJoined /\ clock = i.startedAt

\* the refreshes in flight after the step that the check started for the
\* token now stored
RefreshesInFlight ==
  {i \in issuing' : i.by = "check" /\ i.forToken = tokenExpiresAt}

\* C20: a periodic check that finds the token in its renewal window
\* (expiresAt = now + 200) leaves exactly one reissuance of that token in
\* flight, whatever the latency of the issuance: it starts one, and starts
\* no second one while one is in flight; a check that finds a fresh token
\* (expiresAt = now + 3600, or any with 300 s or more left) starts none.
C20_ExactlyOneReissuance ==
  [][IsCheck
       => /\ remaining < RenewalWindow
               => Cardinality(RefreshesInFlight) = 1
          /\ remaining >= RenewalWindow => issuing' = issuing
    ]_vars

\* the step is the answer of a failed issuance that the check started
IsFailedRefresh ==
  \E i \in issuing :
    /\ i.by = "check" /\ ~i.ok
    /\ clock = i.doneAt
    /\ issuing' = issuing \ {i}

\* C21: when the issuance of a refresh fails, the stored token and its
\* expiresAt stay exactly as they were, the error is shown, the component
\* stays joined and no issuance is started at once; the check timer keeps
\* its schedule (the next check is at most 60 s away), and a check that runs
\* with the error shown on a token still in its window starts the refresh
\* again.
C21_FailedRefreshKeepsToken ==
  [][/\ IsFailedRefresh
          => /\ currentToken' = currentToken
             /\ tokenExpiresAt' = tokenExpiresAt
             /\ videoError' = ErrToken
             /\ isJoined' = isJoined
             /\ issuing' \subseteq issuing
             /\ checkAt' = checkAt
             /\ checkAt # 0 /\ checkAt >= clock
             /\ checkAt - clock <= CheckInterval
     /\ (IsCheck /\ videoError = ErrToken /\ remaining < RenewalWindow)
          => StartedByCheck # {}
    ]_vars

\* C21 witness: the refresh started with 240 s left has failed, and the
\* next check, with 180 s left of the same token, has started it again
C21_Witness ==
  /\ videoError = ErrToken
  /\ isJoined /\ currentToken # NoToken
  /\ \E i \in issuing :
       /\ i.by = "check"
       /\ i.forToken = tokenExpiresAt
       /\ clock = i.startedAt
       /\ remaining = RenewalWindow - 2 * CheckInterval
       /\ \A j \in issuing : j = i

\* the longest time generateAgoraToken takes to answer
MaxLatency == CHOOSE l \in Latencies : \A m \in Latencies : m <= l

\* normal operation: the component is joined and no issuance has failed
\* (the error of a failed issuance stays shown while joined)
Normal == isJoined /\ videoError = NoError

\* the step is the answer of a successful issuance that the check started:
\* the stored token is replaced
IsReplacement ==
  \E i \in issuing :
    /\ i.by = "check" /\ i.ok
    /\ clock = i.doneAt
    /\ issuing' = issuing \ {i}

LiveSubs == channelSubs[Channel] + channelSubs["site-channel"]

\* C23: the unmount of the hook, with no initializeRtm running, stops its
\* heartbeat timer and unsubscribes every listener it registered: the
\* connection-state and peer-message handlers on the client and the
\* channel-message handler on the channel; none is left to handle a tick
\* or a message.
C23_TeardownStopsAll ==
  [][(mounted /\ ~mounted' /\ rtmRun = "none")
       => /\ hbAt' = 0
          /\ clientListeners' = 0
          /\ LiveSubs' = 0
    ]_vars

\* C24: an asynchronous operation that completes after the unmount has its
\* result discarded: the step registers no listener, stores no channel
\* handle and changes neither the connected flag, the CallState nor the
\* error.
C24_ResultsDiscardedAfterTeardown ==
  [][~mounted
       => /\ clientListeners' <= clientListeners
          /\ channelSubs' = channelSubs
          /\ channelRef' = channelRef
          /\ isConnected'[Self] = isConnected[Self]
          /\ callState'[Self] = callState[Self]
          /\ error'[Self] = error[Self]
    ]_vars

\* C25: a successful channel join makes the joined channel the current one,
\* and at most one channel-message listener is live at any time (a rejoin
\* first removes the previous one), so a broadcast is handled at most once.
C25_OneChannelSubscription ==
  /\ LiveSubs <= 1
  /\ (mounted /\ channelRef # NoChannel /\ rtmRun = "none" /\ joinTried)
       => (channelRef = hookChannel \/ error[Self] = ErrChannelJoin)

\* C26: when the login with the token fails, exactly one login without
\* token is attempted; if it succeeds the tablet is marked connected; if it
\* fails too the error is shown, the connected flag is not set, no channel
\* join is attempted and the run attempts no further login.
C26_LoginFallsBackOnce ==
  [][/\ Len(attempts') <= 2
     /\ (rtmRun = "login" /\ rtmRun' = "fallback")
          => attempts' = <<"token", "plain">>
     /\ (rtmRun = "fallback" /\ rtmRun' = "join" /\ mounted)
          => isConnected'[Self]
     /\ (rtmRun = "fallback" /\ rtmRun' = "none")
          => /\ mounted => error'[Self] = ErrLogin
             /\ isConnected'[Self] = isConnected[Self]
             /\ runs = 1 => ~isConnected'[Self]
             /\ ~joinTried'
             /\ attempts' = attempts
     /\ (rtmRun = "none" /\ runs' = runs) => attempts' = attempts
    ]_vars

\* C26 witness: both logins of the first run have failed: the error is
\* shown, the tablet is not connected and no join was attempted
C26_Witness ==
  /\ mounted /\ runs = 1 /\ rtmRun = "none"
  /\ attempts = <<"token", "plain">>
  /\ error[Self] = ErrLogin
  /\ ~isConnected[Self] /\ ~loggedIn
  /\ ~joinTried /\ LiveSubs = 0

\* the channel join of tablet A has failed: it is logged in and has no
\* channel
JoinFailed ==
  /\ rtmRun = "none" /\ joinTried
  /\ loggedIn /\ channelRef = NoChannel

\* C27: a channel join that fails after a successful login is not fatal:
\* the step shows the error, leaves the connected flag true and the call
\* untouched, and stores no channel (so sendHeartbeat has nothing to send
\* on); afterwards every intent of the tablet still sends its signal.
C27_JoinFailureNotFatal ==
  [][/\ (rtmRun = "join" /\ JoinFailed')
          => /\ isConnected[Self] /\ isConnected'[Self]
             /\ error'[Self] = ErrChannelJoin
             /\ CallOf(Self)' = CallOf(Self)
             /\ LiveSubs' = 0
     /\ JoinFailed
          => /\ isConnected[Self]
             /\ (\E t \in targetUserIds(Self) :
                   handleInitiateCall(Self, t, TRUE))
                  => \E t \in targetUserIds(Self) :
                       SendsTo(Self, t, "INCOMING_CALL")
             /\ (currentCall[Self] # NoCall /\ handleAcceptCall(Self, TRUE))
                  => SendsTo(Self, currentCall[Self].from, "CALL_ACCEPTED")
             /\ (currentCall[Self] # NoCall /\ handleDeclineCall(Self, TRUE))
                  => SendsTo(Self, currentCall[Self].from, "CALL_DECLINED")
             /\ (callState[Self] # "IDLE" /\ Counterpart(Self) # NoTarget
                 /\ handleEndActiveCall(Self, TRUE))
                  => SendsTo(Self, Counterpart(Self), "CALL_ENDED")
    ]_vars

\* C27 witness: after the failed join tablet A has dialed B: the join
\* error is cleared, the INCOMING_CALL is in flight and A is CALLING
C27_Witness ==
  /\ JoinFailed
  /\ error[Self] = NoError
  /\ callState[Self] = "CALLING" /\ Settled(Self)
  /\ net[Self]["B"] # <<>>
  /\ Head(net[Self]["B"]).type = "INCOMING_CALL"

\* the step completes a local intent of p whose send was accepted
CompletesIntent(p) ==
  \/ resumeInitiateCall(p)
  \/ resumeAcceptCall(p)
  \/ resumeDeclineCall(p)
  \/ resumeEndActiveCall(p)

\* the step hands p a CALL_ENDED
ReceivesCallEnded(p) ==
  \E s \in {"A", "B"} \ {p} : Delivers(s, p, "CALL_ENDED")

\* a connected p with an error on screen starts an intent in this step and
\* its signal is put in flight
IntentsNotBlocked(p) ==
  (error[p] # NoError /\ isConnected[p])
    => /\ (\E t \in targetUserIds(p) : handleInitiateCall(p, t, TRUE))
            => \E t \in targetUserIds(p) : SendsTo(p, t, "INCOMING_CALL")
       /\ (currentCall[p] # NoCall /\ handleAcceptCall(p, TRUE))
            => SendsTo(p, currentCall[p].from, "CALL_ACCEPTED")
       /\ (currentCall[p] # NoCall /\ handleDeclineCall(p, TRUE))
            => SendsTo(p, currentCall[p].from, "CALL_DECLINED")
       /\ (callState[p] # "IDLE" /\ Counterpart(p) # NoTarget
           /\ handleEndActiveCall(p, TRUE))
            => SendsTo(p, Counterpart(p), "CALL_ENDED")

\* C28 as stated: every error is transient: after any local intent that
\* completes successfully, and after a received CALL_ENDED, the error is
\* null, and no error blocks later intents.
C28_ErrorNullAfterIntent ==
  [][\A p \in {"A", "B"} :
       /\ CompletesIntent(p) => error'[p] = NoError
       /\ ReceivesCallEnded(p) => error'[p] = NoError
       /\ IntentsNotBlocked(p)
    ]_vars

\* C28 amended: every error is transient: initiate, accept and decline
\* clear the error when they start and raise none when they complete, end
\* clears it when it completes, and a received CALL_ENDED clears it; so
\* the error is null after an intent that completed successfully unless
\* another handler raised one while the send of the intent was awaited.
\* No error blocks later intents.
C28_ErrorsTransient ==
  [][\A p \in {"A", "B"} :
       /\ ( /\ isConnected[p]
            /\ \/ \E t \in targetUserIds(p) : handleInitiateCall(p, t, TRUE)
               \/ currentCall[p] # NoCall /\ handleAcceptCall(p, TRUE)
               \/ currentCall[p] # NoCall /\ handleDeclineCall(p, TRUE) )
          => error'[p] = NoError
       /\ ( \/ resumeInitiateCall(p)
            \/ resumeAcceptCall(p)
            \/ resumeDeclineCall(p) )
          => error'[p] = error[p]
       /\ resumeEndActiveCall(p) => error'[p] = NoError
       /\ ReceivesCallEnded(p) => error'[p] = NoError
       /\ IntentsNotBlocked(p)
    ]_vars

\* C28 witness: the channel join of tablet A failed and its error was on
\* screen; an intent has cleared it since and A is in a call
C28_Witness ==
  /\ JoinFailed
  /\ error[Self] = NoError
  /\ callState[Self] = "CONNECTED" /\ Settled(Self)
  /\ showVideoCall[Self]

\* the heartbeat interval of tablet A is running
IntervalRuns == hbAt # 0

\* the interval runs exactly while the mounted hook is connected, and its
\* next firing is at most one interval away
IntervalWhileConnected ==
  /\ IntervalRuns <=> (mounted /\ isConnected[Self])
  /\ IntervalRuns => (now <= hbAt /\ hbAt <= now + HeartbeatInterval)

\* C29: a heartbeat is sent only by a connected tablet that has joined a
\* channel, on that channel and carrying its userId; the interval runs
\* exactly while the tablet is connected, fires every HeartbeatInterval
\* seconds, and each firing with a joined channel sends one heartbeat.
C29_HeartbeatWhileJoined ==
  [][/\ IntervalWhileConnected /\ IntervalWhileConnected'
     /\ lastHeartbeat' # lastHeartbeat
          => /\ mounted /\ isConnected[Self] /\ channelRef # NoChannel
             /\ lastHeartbeat' = [at |-> now, text |-> heartbeatText(Self),
                                  channel |-> channelRef]
     /\ (IntervalRuns /\ now = hbAt /\ now' = now /\ hbAt' # hbAt
         /\ mounted' /\ isConnected'[Self] /\ hookChannel' = hookChannel)
          => /\ hbAt' = now + HeartbeatInterval
             /\ channelRef # NoChannel => lastHeartbeat'.at = now
    ]_vars

\* C29 witness: tablet A, connected and joined, has sent its second
\* heartbeat one interval after the first
C29_Witness ==
  /\ mounted /\ isConnected[Self] /\ channelRef # NoChannel
  /\ lastHeartbeat.at = 2 * HeartbeatInterval
  /\ lastHeartbeat.text = heartbeatText(Self)
  /\ hbAt = 3 * HeartbeatInterval

\* C30: heartbeats carry no call semantics: a heartbeat handled on the
\* channel path or on the peer path changes none of CallState, currentCall,
\* the call id, the ringtone and the error of the tablet that receives it.
C30_HeartbeatNoCallSemantics ==
  [][\A r \in {"A", "B"} :
       ( \/ handleChannelMessage(r, Heartbeat)
         \/ handleOtherMessageFromPeer(r, Heartbeat) )
       => /\ CallOf(r)' = CallOf(r)
          /\ currentCallIdRef'[r] = currentCallIdRef[r]
          /\ ringing'[r] = ringing[r]
          /\ error'[r] = error[r]
          /\ showVideoCall'[r] = showVideoCall[r]
    ]_vars

\* C30 witness: a ringing tablet has handled a heartbeat since the
\* INCOMING_CALL (its last step applied no signal and no handler of it is
\* waiting) and is ringing as before
C30_Witness ==
  \E r \in {"A", "B"} :
    /\ callState[r] = "RINGING" /\ ringing[r]
    /\ currentCall[r] # NoCall /\ currentCall[r].type = "INCOMING_CALL"
    /\ applied[r] = NoApplied /\ Settled(r)
    /\ error[r] = NoError

\* C31: the initial CallState is IDLE and ENDED is never a resting state:
\* no handler writes ENDED, so no tablet is ever in it.
C31_EndedNeverResting ==
  /\ \A p \in Parties : callState[p] = "IDLE"
  /\ [](\A p \in Parties : callState[p] # "ENDED")

\* C31 witness: both tablets were in a call that one of them ended: the
\* other has applied the CALL_ENDED while CONNECTED and both are IDLE
C31_Witness ==
  \E r \in {"A", "B"} :
    /\ applied[r].sig = "CALL_ENDED" /\ applied[r].was = "CONNECTED"
    /\ \A p \in {"A", "B"} : callState[p] = "IDLE" /\ Settled(p)

\* C32: the alert is stopped on every transition out of RINGING or CALLING:
\* in every state a tablet whose ring alert is active is RINGING.
C32_AlertOnlyWhileRinging ==
  \A p \in Parties : ringing[p] => callState[p] = "RINGING"

\* C33: acceptCall and declineCall address CALL_ACCEPTED / CALL_DECLINED to
\* the caller (currentCall.from) on the channel of the stored call, and
\* change CallState only once the send has succeeded (to CONNECTED / IDLE);
\* a send that fails leaves CallState and currentCall as they are and sets
\* an error; with no currentCall they send nothing and change nothing.
C33_AnswerAfterSend ==
  [][\A p \in {"A", "B"} :
       /\ \A type \in {"CALL_ACCEPTED", "CALL_DECLINED"} :
            ( /\ currentCall[p] # NoCall /\ isConnected[p]
              /\ IF type = "CALL_ACCEPTED" THEN handleAcceptCall(p, TRUE)
                                           ELSE handleDeclineCall(p, TRUE) )
            => /\ SendsTo(p, currentCall[p].from, type)
               /\ net'[p][currentCall[p].from]
                      [Len(net'[p][currentCall[p].from])].channel
                    = currentCall[p].channel
               /\ CallOf(p)' = CallOf(p)
       /\ resumeAcceptCall(p)
            => /\ pending[p] = "accept"
               /\ callState'[p] = "CONNECTED" /\ showVideoCall'[p]
       /\ resumeDeclineCall(p)
            => /\ pending[p] = "decline"
               /\ callState'[p] = "IDLE" /\ currentCall'[p] = NoCall
       /\ ( /\ currentCall[p] # NoCall
            /\ \/ \E ok \in BOOLEAN : handleAcceptCall(p, ok)
               \/ \E ok \in BOOLEAN : handleDeclineCall(p, ok)
            /\ pending'[p] \notin {"accept", "decline"} )
          => /\ SendsNothing(p)
             /\ CallOf(p)' = CallOf(p)
             /\ pending'[p] = "none" => error'[p] = ErrNotConnected
       /\ (pending[p] \in {Rejected("accept"), Rejected("decline")}
           /\ sendRejected(p))
          => /\ CallOf(p)' = CallOf(p)
             /\ error'[p] = ErrSendFailed
       /\ ( /\ currentCall[p] = NoCall /\ pending[p] = "none"
            /\ \/ \E ok \in BOOLEAN : handleAcceptCall(p, ok)
               \/ \E ok \in BOOLEAN : handleDeclineCall(p, ok) )
          => UNCHANGED vars
    ]_vars

\* C33 witness: tablet B dialed A and A's accept was rejected by the
\* transport: A is still RINGING with the call stored and shows the error
C33_Witness ==
  \E p \in {"A", "B"} :
    /\ callState[p] = "RINGING" /\ currentCall[p] # NoCall
    /\ error[p] = ErrSendFailed /\ Settled(p)
    /\ ~ringing[p]

\* no signal is in flight between the tablets and no handler of theirs is
\* waiting for its send
Quiescent ==
  /\ \A s, r \in Parties : net[s][r] = <<>>
  /\ \A p \in Parties : Settled(p)

\* C34: with reliable in-order delivery between the connected tablets A and
\* B, in every quiescent state they agree on the call: it is never the case
\* that one is CONNECTED while the other is IDLE.
C34_QuiescentAgreement ==
  Quiescent =>
    \A p, q \in {"A", "B"} :
      ~(callState[p] = "CONNECTED" /\ callState[q] = "IDLE")

\* C35: a local intent suspended at its awaited send does not overwrite a
\* state change made by a signal handled during the await: acceptCall
\* resumed after a CALL_ENDED leaves the tablet IDLE, and initiateCall
\* resumed after a CALL_DECLINED or CALL_ENDED does not leave it CALLING.
C35_AwaitDoesNotOverwrite ==
  [][\A p \in {"A", "B"} :
       /\ ( /\ pending[p] = "accept" /\ applied[p].sig = "CALL_ENDED"
            /\ resumeAcceptCall(p) )
          => callState'[p] = "IDLE"
       /\ ( /\ pending[p] = "initiate"
            /\ applied[p].sig \in {"CALL_DECLINED", "CALL_ENDED"}
            /\ resumeInitiateCall(p) )
          => callState'[p] # "CALLING"
    ]_vars

\* a party of a CONNECTED call has run endCall: both tablets are CONNECTED
\* and the CALL_ENDED of one of them is on its way to the other
EndRequested ==
  /\ callState["A"] = "CONNECTED" /\ callState["B"] = "CONNECTED"
  /\ \E p, q \in {"A", "B"} :
       /\ p # q /\ pending[p] = "end"
       /\ net[p][q] # <<>>
       /\ net[p][q][Len(net[p][q])].type = "CALL_ENDED"

\* both tablets are IDLE with currentCall, the call id and the video view
\* cleared
BothCleared ==
  \A p \in {"A", "B"} :
    /\ callState[p] = "IDLE" /\ currentCall[p] = NoCall
    /\ currentCallIdRef[p] = NoId /\ ~showVideoCall[p]

\* the number of signals in flight between the tablets
InFlightCount(n) ==
  Len(n["A"]["B"]) + Len(n["B"]["A"])

\* C36: with both tablets connected and delivery reliable, when a party of
\* a CONNECTED call runs endCall, eventually both tablets are IDLE with
\* currentCall, the call id and the video view cleared; the endCall puts
\* exactly one CALL_ENDED in flight, addressed to the other party, and its
\* continuation sends nothing.
C36_EndCallReachesIdle ==
  /\ [][\A p \in {"A", "B"} :
          /\ ( /\ callState[p] = "CONNECTED" /\ Counterpart(p) # NoTarget
               /\ handleEndActiveCall(p, TRUE) )
             => /\ SendsTo(p, Counterpart(p), "CALL_ENDED")
                /\ InFlightCount(net') = InFlightCount(net) + 1
          /\ resumeEndActiveCall(p) => InFlightCount(net') = InFlightCount(net)
       ]_vars
  /\ EndRequested ~> BothCleared

\* C37: the media session is surfaced only during a connected call: in
\* every state showVideoCall is true only if CallState is CONNECTED.
C37_VideoOnlyWhenConnected ==
  \A p \in Parties : showVideoCall[p] => callState[p] = "CONNECTED"

\* C38: in every state a tablet that is IDLE has no currentCall, and a
\* tablet that is RINGING has a stored INCOMING_CALL as its currentCall.
C38_CurrentCallMatchesState ==
  \A p \in Parties :
    /\ callState[p] = "IDLE" => currentCall[p] = NoCall
    /\ callState[p] = "RINGING"
         => currentCall[p] # NoCall /\ currentCall[p].type = "INCOMING_CALL"

\* C38 witness: a callee has declined and is IDLE with no currentCall, and
\* its caller has handled the CALL_DECLINED
C38_Witness ==
  \E p, q \in {"A", "B"} :
    /\ p # q
    /\ applied[q].sig = "CALL_DECLINED" /\ applied[q].was = "CALLING"
    /\ callState[p] = "IDLE" /\ currentCall[p] = NoCall /\ Settled(p)
    /\ callState[q] = "IDLE" /\ currentCall[q] = NoCall

\* the call of p that initiateCall must leave alone when it fails
DialFrame(p) ==
  <<callState[p], currentCall[p], currentCallIdRef[p], currentTargetUserId[p]>>

\* C39: an initiateCall that fails, because the transport is not connected
\* or because the send rejects, leaves CallState, currentCall, the call id
\* and the dialed target as they were before the attempt and sets only the
\* error.
C39_FailedInitiateLeavesNoTrace ==
  [][\A p \in {"A", "B"} :
       /\ ( /\ ~isConnected[p]
            /\ \E t \in targetUserIds(p) : handleInitiateCall(p, t, TRUE) )
          => DialFrame(p)' = DialFrame(p) /\ error'[p] = ErrNotConnected
       /\ ( /\ isConnected[p]
            /\ \E t \in targetUserIds(p) : handleInitiateCall(p, t, FALSE) )
          => DialFrame(p)' = DialFrame(p)
       /\ (pending[p] = Rejected("initiate") /\ sendRejected(p))
          => DialFrame(p)' = DialFrame(p) /\ error'[p] = ErrSendFailed
    ]_vars

\* C40: a credential refresh re-issues the credential for the identity it
\* replaces: the uid the periodic check passes to the issuance equals the
\* session uid the component joined with.
C40_RefreshForSessionUid ==
  \A i \in issuing : i.by = "check" => i.uid = currentUid

====
